---- MODULE Spec2Model ----
(***************************************************************************)
(* Verification model of the hooks of ferdaber/utils.                      *)
(*                                                                         *)
(* Every hook is modelled inside one host component instance.  The host    *)
(* framework's cycle is: a render invocation (the component function is    *)
(* called; it may be repeated or discarded before it is committed), a      *)
(* commit (the effects of the last render invocation run), and an unmount. *)
(* Hook state of a component that never committed is created anew by       *)
(* every mount render invocation; after the first commit refs and state    *)
(* are shared by all render invocations.                                   *)
(*                                                                         *)
(* Specifications:                                                         *)
(*   SpecSR  useStatefulRef                                                *)
(*   SpecDH  useWatchValues, useImmediateEffect, useTrueMemo               *)
(*   SpecAE  useAsyncEffect                                                *)
(*   SpecAS  useAsyncState                                                 *)
(*   SpecUE  useUpdateEffect, useUpdateLayoutEffect                        *)
(*   SpecCR  useComputedStatefulRef                                        *)
(*   SpecTO  useTimeout                                                    *)
(*   SpecMS  useMeasurable                                                 *)
(*   SpecST  createStore                                                   *)
(*   SpecSE  shallowEquals                                                 *)
(*   SpecAR  truthy, splice                                                *)
(*   SpecCC  capitalize, kebabCaseToCamelCase                              *)
(*   SpecWV  useWatchValues under repeated render invocations              *)
(*   SpecSL  useStoplightState                                             *)
(*   SpecLR  useLazyRef                                                    *)
(***************************************************************************)
EXTENDS Integers, Sequences, FiniteSets, TLC

\* ------------------------------------------------------------------------
\* Values and identity
\* ------------------------------------------------------------------------

\* JavaScript values used as inputs: NaN, +0, -0 and an ordinary string.
Values == {"NaN", "pz", "nz", "a"}

\* The value `undefined` / an absent object.
Undef == "undefined"

\* Object.is(a, b): NaN is identical to NaN, +0 is not identical to -0.
ObjectIs(a, b) == a = b

\* a === b: NaN differs from itself, +0 equals -0.
StrictEquals(a, b) ==
  IF a = "NaN" \/ b = "NaN" THEN FALSE
  ELSE IF {a, b} = {"pz", "nz"} THEN TRUE
  ELSE a = b

\* ------------------------------------------------------------------------
\* useStatefulRef
\* ------------------------------------------------------------------------

\* Bound on the number of setter calls that reach setRef.
MaxSets == 2
\* Bound on the number of render invocations of the useStatefulRef host.
MaxSRRenders == 3

VARIABLES
  srCell,       \* state.current, the volatile cell
  srBase,       \* the committed useState value, an object {value}
  srQueue,      \* the useState updates enqueued by setRef and not yet committed
  srWip,        \* the result of the last render invocation not yet committed
  srLastRef,    \* lastRef.current
  srNextId,     \* identity of the next object {value} allocated
  srScheduled,  \* number of setRef calls (re-renders scheduled)
  srRenders,    \* number of render invocations
  srMounted,    \* the first render has been committed
  srOp,         \* the last operation, with its input and the cell before it
  srPending,    \* value of the last changing setter call since the last render
  srDirty       \* `current` was assigned directly since the last render

varsSR == <<srCell, srBase, srQueue, srWip, srLastRef, srNextId, srScheduled,
            srRenders, srMounted, srOp, srPending, srDirty>>

NoWip == [ref |-> [id |-> 0, value |-> Undef], n |-> 0, live |-> FALSE]
NoOp == [kind |-> "none", isFn |-> FALSE, arg |-> Undef, before |-> Undef, sched |-> 0]

\* The updater functions a caller may pass to the setter.
Updaters == {"same", "toA", "negate"}

\* The updater `name` applied to the previous state. "fresh" returns a new
\* object on every call: the objects are o1 and o2 in turn, so that the
\* result is never identical to the state it was called with.
ApplyUpdater(name, prev) ==
  CASE name = "same" -> prev
    [] name = "toA" -> "a"
    [] name = "toNaN" -> "NaN"
    [] name = "toFalse" -> "false"
    [] name = "fresh" -> (IF prev = "o1" THEN "o2" ELSE "o1")
    [] name = "negate" -> (CASE prev = "pz" -> "nz"
                             [] prev = "nz" -> "pz"
                             [] OTHER -> "NaN")

\* const nextState = typeof action === 'function' ? action(state.current) : action
NextState(isFn, arg, cur) == IF isFn THEN ApplyUpdater(arg, cur) ELSE arg

InitSR ==
  /\ srCell = Undef
  /\ srBase = [id |-> 0, value |-> Undef]
  /\ srQueue = <<>>
  /\ srWip = NoWip
  /\ srLastRef = [id |-> 0, value |-> Undef]
  /\ srNextId = 1
  /\ srScheduled = 0
  /\ srRenders = 0
  /\ srMounted = FALSE
  /\ srOp = NoOp
  /\ srPending = Undef
  /\ srDirty = FALSE

\* Mutant: the setter enqueues the state update but leaves the cell alone.
setRefState_NoCellWrite(isFn, arg, cell, queue, nextId, scheduled) ==
  LET nextState == NextState(isFn, arg, cell) IN
  IF ~ObjectIs(cell, nextState)
  THEN [cell |-> cell,
        queue |-> Append(queue, [id |-> nextId, value |-> nextState]),
        nextId |-> nextId + 1,
        scheduled |-> scheduled + 1]
  ELSE [cell |-> cell, queue |-> queue, nextId |-> nextId, scheduled |-> scheduled]

\* Mutant: the setter compares with === instead of Object.is.
setRefState_StrictEquals(isFn, arg, cell, queue, nextId, scheduled) ==
  LET nextState == NextState(isFn, arg, cell) IN
  IF ~StrictEquals(cell, nextState)
  THEN [cell |-> nextState,
        queue |-> Append(queue, [id |-> nextId, value |-> nextState]),
        nextId |-> nextId + 1,
        scheduled |-> scheduled + 1]
  ELSE [cell |-> cell, queue |-> queue, nextId |-> nextId, scheduled |-> scheduled]

\* Mutant: the setter snapshots the cell before writing it.
setRefState_StaleSnapshot(isFn, arg, cell, queue, nextId, scheduled) ==
  LET nextState == NextState(isFn, arg, cell) IN
  IF ~ObjectIs(cell, nextState)
  THEN [cell |-> nextState,
        queue |-> Append(queue, [id |-> nextId, value |-> cell]),
        nextId |-> nextId + 1,
        scheduled |-> scheduled + 1]
  ELSE [cell |-> cell, queue |-> queue, nextId |-> nextId, scheduled |-> scheduled]

\* The setter: the cell, the update queue, the next identity and the number
\* of setRef calls after setRefState(action).
setRefState(isFn, arg, cell, queue, nextId, scheduled) ==
  LET nextState == NextState(isFn, arg, cell) IN
  IF ~ObjectIs(cell, nextState)
  THEN [cell |-> nextState,
        queue |-> Append(queue, [id |-> nextId, value |-> nextState]),
        nextId |-> nextId + 1,
        scheduled |-> scheduled + 1]
  ELSE [cell |-> cell, queue |-> queue, nextId |-> nextId, scheduled |-> scheduled]

\* First render invocation(s) of the component: useLazyRef(initialValue),
\* useState({ value: state.current }), useRef(ref).
SRMount(init) ==
  /\ ~srMounted
  /\ srRenders < MaxSRRenders
  /\ LET ref == [id |-> srNextId, value |-> init] IN
     /\ srCell' = init
     /\ srBase' = ref
     /\ srLastRef' = ref
     /\ srWip' = [ref |-> ref, n |-> 0, live |-> TRUE]
  /\ srQueue' = <<>>
  /\ srNextId' = srNextId + 1
  /\ srRenders' = srRenders + 1
  /\ srOp' = [kind |-> "mount", isFn |-> FALSE, arg |-> init, before |-> srCell,
              sched |-> srScheduled]
  /\ srPending' = Undef
  /\ srDirty' = FALSE
  /\ UNCHANGED <<srScheduled, srMounted>>

\* A render invocation of the mounted component: useState yields the last
\* enqueued object (or the committed one); the cell is reset when the render
\* sees the state object of the last commit.
SRRender ==
  /\ srMounted
  /\ srRenders < MaxSRRenders
  /\ LET ref == IF Len(srQueue) = 0 THEN srBase ELSE srQueue[Len(srQueue)] IN
     /\ srCell' = IF srLastRef.id = ref.id THEN ref.value ELSE srCell
     /\ srWip' = [ref |-> ref, n |-> Len(srQueue), live |-> TRUE]
  /\ srRenders' = srRenders + 1
  /\ srOp' = [kind |-> "render", isFn |-> FALSE, arg |-> Undef, before |-> srCell,
              sched |-> srScheduled]
  /\ srPending' = Undef
  /\ srDirty' = FALSE
  /\ UNCHANGED <<srBase, srQueue, srLastRef, srNextId, srScheduled, srMounted>>

\* Commit of the last render invocation: the rendered state object becomes the
\* committed one and the effect stores it in lastRef.
SRCommit ==
  /\ srWip.live
  /\ srBase' = srWip.ref
  /\ srQueue' = SubSeq(srQueue, srWip.n + 1, Len(srQueue))
  /\ srLastRef' = srWip.ref
  /\ srWip' = NoWip
  /\ srMounted' = TRUE
  /\ srOp' = [kind |-> "commit", isFn |-> FALSE, arg |-> Undef, before |-> srCell,
              sched |-> srScheduled]
  /\ UNCHANGED <<srCell, srNextId, srScheduled, srRenders, srPending, srDirty>>

\* A call of the setter outside of a render, with a value or an updater.
SRSet(isFn, arg) ==
  /\ srMounted
  /\ srScheduled < MaxSets
  /\ LET r == setRefState(isFn, arg, srCell, srQueue, srNextId, srScheduled) IN
     /\ srCell' = r.cell
     /\ srQueue' = r.queue
     /\ srNextId' = r.nextId
     /\ srScheduled' = r.scheduled
  /\ srOp' = [kind |-> "set", isFn |-> isFn, arg |-> arg, before |-> srCell,
              sched |-> srScheduled]
  /\ srPending' = IF ObjectIs(srCell, NextState(isFn, arg, srCell))
                  THEN srPending ELSE NextState(isFn, arg, srCell)
  /\ srDirty' = IF ObjectIs(srCell, NextState(isFn, arg, srCell)) THEN srDirty ELSE FALSE
  /\ UNCHANGED <<srBase, srWip, srLastRef, srRenders, srMounted>>

\* A direct assignment of `current` by the caller.
SRAssign(v) ==
  /\ srMounted
  /\ v # srCell
  /\ srCell' = v
  /\ srDirty' = TRUE
  /\ srOp' = [kind |-> "assign", isFn |-> FALSE, arg |-> v, before |-> srCell,
              sched |-> srScheduled]
  /\ UNCHANGED <<srBase, srQueue, srWip, srLastRef, srNextId, srScheduled,
                 srRenders, srMounted, srPending>>

\* ------------------------------------------------------------------------
\* useWatchValues, useImmediateEffect, useTrueMemo
\*
\* The host component H({values, includeOnMount, effect, init}) calls
\*   useWatchValues(values, includeOnMount)
\*   useImmediateEffect(effect, values)
\*   useTrueMemo(init, values)
\* ------------------------------------------------------------------------

\* Bound on the length of a dependency list.
MaxDepLen == 1
\* Bound on the number of render invocations of the host component.
MaxDHRenders == 3

\* The dependency lists a render may pass.
DepLists == UNION {[1..n -> {"NaN", "pz", "nz"}] : n \in 0..MaxDepLen}

\* The cleanup `noop`; the cleanup returned by the k-th effect execution is k.
Noop == 0

\* A ref holding no list (prevValues.current is undefined).
NoList == [set |-> FALSE, list |-> <<>>]
SomeList(l) == [set |-> TRUE, list |-> l]

\* Values of the memo: undefined, a primitive, or the object made by the
\* id-th call of init.
MemoUndef == [k |-> "undefined", id |-> 0]
MemoPrim == [k |-> "prim", id |-> 0]
MemoObj(n) == [k |-> "obj", id |-> n]

\* The init functions a caller may pass: one makes a new object on every
\* call, one returns the same primitive.
InitFns == {"fresh", "const"}
InitResult(fn, n) == IF fn = "fresh" THEN MemoObj(n) ELSE MemoPrim

VARIABLES
  dhMounted,    \* the first render has been committed and H is not unmounted
  dhDead,       \* H was unmounted
  dhRenders,    \* number of render invocations
  dhWip,        \* the result of the last render invocation not yet committed
  wvPrev,       \* prevValues.current of useWatchValues(values, includeOnMount)
  iePrev,       \* prevValues.current inside useImmediateEffect
  ieCleanup,    \* prevEffectCleanup.current of useImmediateEffect
  ieEffects,    \* number of executions of the effect
  tmPrev,       \* prevValues.current inside useTrueMemo's useImmediateEffect
  tmCleanup,    \* prevEffectCleanup.current inside useTrueMemo
  tmValue,      \* value.current of useTrueMemo
  tmEffDeps,    \* [nextValue] of the last committed useEffect of useTrueMemo
  tmInits,      \* number of calls of init
  dhOp,         \* the last operation
  dhCalls,      \* the caller's functions invoked by the last operation, in order
  dhBaseline,   \* list of the last committed render that reported changed, or
                \* of the mount
  dhCommitted,  \* list, returned memo and effect cleanup of the last commit
  dhRet         \* what the hooks returned in the last render invocation

varsDH == <<dhMounted, dhDead, dhRenders, dhWip, wvPrev, iePrev, ieCleanup,
            ieEffects, tmPrev, tmCleanup, tmValue, tmEffDeps, tmInits, dhOp,
            dhCalls, dhBaseline, dhCommitted, dhRet>>

NoDHWip == [live |-> FALSE, mount |-> FALSE, values |-> <<>>,
            wvChanged |-> FALSE, ieChanged |-> FALSE, ieCleanup |-> Noop,
            tmChanged |-> FALSE, tmCleanup |-> Noop, tmNext |-> MemoUndef]
NoDHRet == [changed |-> FALSE, memo |-> MemoUndef, initFn |-> "const"]

InitDH ==
  /\ dhMounted = FALSE
  /\ dhDead = FALSE
  /\ dhRenders = 0
  /\ dhWip = NoDHWip
  /\ wvPrev = NoList
  /\ iePrev = NoList
  /\ ieCleanup = Noop
  /\ ieEffects = 0
  /\ tmPrev = NoList
  /\ tmCleanup = Noop
  /\ tmValue = MemoUndef
  /\ tmEffDeps = MemoUndef
  /\ tmInits = 0
  /\ dhOp = "none"
  /\ dhCalls = <<>>
  /\ dhBaseline = <<>>
  /\ dhCommitted = [values |-> <<>>, memo |-> MemoUndef, cleanup |-> Noop]
  /\ dhRet = NoDHRet

\* values[i], undefined past the end of the list.
At(values, i) == IF i \in 1..Len(values) THEN values[i] ELSE Undef

\* Mutant: the comparison forgets the lengths.
WatchChanged_NoLength(prev, values) ==
  \/ ~prev.set
  \/ \E i \in 1..Len(prev.list) : ~ObjectIs(prev.list[i], At(values, i))

\* Mutant: the comparison uses === instead of Object.is.
WatchChanged_StrictEquals(prev, values) ==
  \/ ~prev.set
  \/ Len(prev.list) # Len(values)
  \/ \E i \in 1..Len(prev.list) : ~StrictEquals(prev.list[i], At(values, i))

\* const changed = !prevValues.current || lengths differ || some element differs
WatchChanged(prev, values) ==
  \/ ~prev.set
  \/ Len(prev.list) # Len(values)
  \/ \E i \in 1..Len(prev.list) : ~ObjectIs(prev.list[i], At(values, i))

\* Mutant: the ref starts with the list whatever includeOnMount is.
WatchInit_AlwaysValues(values, includeOnMount) == SomeList(values)

\* useRef(includeOnMount ? undefined : values)
WatchInit(values, includeOnMount) ==
  IF includeOnMount THEN NoList ELSE SomeList(values)

\* useEffect(() => { if (changed) prevValues.current = values })
WatchEffect(prev, changed, values) ==
  IF changed THEN SomeList(values) ELSE prev

\* Mutant: the body of the hook replaces the list when it reports a change.
WatchBody_WritesRef(prev, values) ==
  IF WatchChanged(prev, values) THEN SomeList(values) ELSE prev

\* prevValues.current after the body of useWatchValues has run in a render
\* invocation: the body reads the ref and never writes it.
WatchBody(prev, values) == prev

\* Mutant: the previous cleanup runs after the new effect body.
ImmediateRender_EffectFirst(prev, prevCleanup, values, retCleanup, nEffects) ==
  LET changed == WatchChanged(prev, values)
      e == nEffects + 1
  IN IF changed
     THEN [changed |-> TRUE,
           calls |-> <<[f |-> "effect", id |-> e]>> \o
                     (IF prevCleanup # Noop
                      THEN <<[f |-> "cleanup", id |-> prevCleanup]>> ELSE <<>>),
           cleanup |-> IF retCleanup THEN e ELSE Noop,
           nEffects |-> e]
     ELSE [changed |-> FALSE, calls |-> <<>>, cleanup |-> Noop,
           nEffects |-> nEffects]

\* Mutant: the effect is left to the post-commit effect on changed deps.
ImmediateRender_Deferred(prev, prevCleanup, values, retCleanup, nEffects) ==
  [changed |-> WatchChanged(prev, values), calls |-> <<>>, cleanup |-> Noop,
   nEffects |-> nEffects]

\* The render part of useImmediateEffect(effect, values): when the deps
\* changed, prevEffectCleanup.current() and then effect() are called; the
\* effect execution e returns the cleanup e, or nothing.
ImmediateRender(prev, prevCleanup, values, retCleanup, nEffects) ==
  LET changed == WatchChanged(prev, values)
      e == nEffects + 1
  IN IF changed
     THEN [changed |-> TRUE,
           calls |-> (IF prevCleanup # Noop
                      THEN <<[f |-> "cleanup", id |-> prevCleanup]>> ELSE <<>>)
                     \o <<[f |-> "effect", id |-> e]>>,
           cleanup |-> IF retCleanup THEN e ELSE Noop,
           nEffects |-> e]
     ELSE [changed |-> FALSE, calls |-> <<>>, cleanup |-> Noop,
           nEffects |-> nEffects]

\* useEffect(() => { if (depsChanged) prevEffectCleanup.current = cleanup })
ImmediateEffect(prevCleanup, changed, cleanup) ==
  IF changed THEN cleanup ELSE prevCleanup

\* Mutant: the memo returns the cached value and leaves the new one to the
\* next render.
TrueMemoRender_Lagging(prev, prevCleanup, value, values, initFn, nInits) ==
  LET ie == ImmediateRender(prev, prevCleanup, values, FALSE, nInits)
      ran == ie.nEffects # nInits
  IN [changed |-> ie.changed, cleanup |-> ie.cleanup,
      calls |-> IF ran THEN <<[f |-> "init", id |-> ie.nEffects]>> ELSE <<>>,
      next |-> IF ran THEN InitResult(initFn, ie.nEffects) ELSE value,
      ret |-> value,
      nInits |-> ie.nEffects]

\* The render part of useTrueMemo(init, values): nextValue starts as
\* value.current and is overwritten by init() when the immediate effect
\* () => { nextValue = init() } runs; the effect returns no cleanup.
TrueMemoRender(prev, prevCleanup, value, values, initFn, nInits) ==
  LET ie == ImmediateRender(prev, prevCleanup, values, FALSE, nInits)
      ran == ie.nEffects # nInits
      nextValue == IF ran THEN InitResult(initFn, ie.nEffects) ELSE value
  IN [changed |-> ie.changed, cleanup |-> ie.cleanup,
      calls |-> IF ran THEN <<[f |-> "init", id |-> ie.nEffects]>> ELSE <<>>,
      next |-> nextValue,
      ret |-> nextValue,
      nInits |-> ie.nEffects]

\* Mutant: the effect of useTrueMemo never stores the value.
TrueMemoEffect_NoStore(value, effDeps, nextValue, mount) == value

\* useEffect(() => { value.current = nextValue }, [nextValue])
TrueMemoEffect(value, effDeps, nextValue, mount) ==
  IF mount \/ ~ObjectIs(effDeps, nextValue) THEN nextValue ELSE value

\* Mutant: the body of useImmediateEffect stores the new cleanup itself.
ImmediateBody_StoresCleanup(prevCleanup, changed, cleanup) ==
  IF changed THEN cleanup ELSE prevCleanup

\* prevEffectCleanup.current after the body of useImmediateEffect has run in
\* a render invocation: the body calls the stored cleanup and keeps the new
\* one in the local variable cleanup; the ref is not written.
ImmediateBody(prevCleanup, changed, cleanup) == prevCleanup

\* Mutant: the body of useTrueMemo stores the recomputed value itself.
TrueMemoBody_WritesCache(value, nextValue) == nextValue

\* value.current after the body of useTrueMemo has run in a render
\* invocation: the immediate effect assigns the local variable nextValue and
\* the ref is not written.
TrueMemoBody(value, nextValue) == value

\* One render invocation of H.  The refs given are those the invocation
\* sees: new ones in a mount render, the component's otherwise.
DHRenderWith(mount, values, retCleanup, initFn, wv, ie, ieC, tm, tmC, tmV) ==
  LET ieR == ImmediateRender(ie, ieC, values, retCleanup, ieEffects)
      tmR == TrueMemoRender(tm, tmC, tmV, values, initFn, tmInits)
  IN /\ dhWip' = [live |-> TRUE, mount |-> mount, values |-> values,
                  wvChanged |-> WatchChanged(wv, values),
                  ieChanged |-> ieR.changed, ieCleanup |-> ieR.cleanup,
                  tmChanged |-> tmR.changed, tmCleanup |-> tmR.cleanup,
                  tmNext |-> tmR.next]
     /\ dhRet' = [changed |-> WatchChanged(wv, values), memo |-> tmR.ret,
                  initFn |-> initFn]
     /\ dhCalls' = ieR.calls \o tmR.calls
     /\ ieEffects' = ieR.nEffects
     /\ tmInits' = tmR.nInits
     /\ dhRenders' = dhRenders + 1

\* A render invocation of H before its first commit: every hook creates its
\* refs.
DHMount(values, includeOnMount, retCleanup, initFn) ==
  /\ ~dhMounted /\ ~dhDead
  /\ dhRenders < MaxDHRenders
  /\ wvPrev' = WatchInit(values, includeOnMount)
  /\ iePrev' = WatchInit(values, TRUE)
  /\ ieCleanup' = Noop
  /\ tmPrev' = WatchInit(values, TRUE)
  /\ tmCleanup' = Noop
  /\ tmValue' = MemoUndef
  /\ DHRenderWith(TRUE, values, retCleanup, initFn,
                  WatchInit(values, includeOnMount), WatchInit(values, TRUE),
                  Noop, WatchInit(values, TRUE), Noop, MemoUndef)
  /\ dhOp' = "mount"
  /\ dhBaseline' = values
  /\ UNCHANGED <<dhMounted, dhDead, tmEffDeps, dhCommitted>>

\* A render invocation of the mounted H.
DHRender(values, retCleanup, initFn) ==
  /\ dhMounted
  /\ dhRenders < MaxDHRenders
  /\ DHRenderWith(FALSE, values, retCleanup, initFn,
                  wvPrev, iePrev, ieCleanup, tmPrev, tmCleanup, tmValue)
  /\ ieCleanup' = ImmediateBody(ieCleanup, dhWip'.ieChanged, dhWip'.ieCleanup)
  /\ tmValue' = TrueMemoBody(tmValue, dhWip'.tmNext)
  /\ dhOp' = "render"
  /\ UNCHANGED <<dhMounted, dhDead, wvPrev, iePrev, tmPrev, tmCleanup,
                 tmEffDeps, dhBaseline, dhCommitted>>

\* Commit of the last render invocation: its effects run, in hook order.
DHCommit ==
  /\ dhWip.live
  /\ wvPrev' = WatchEffect(wvPrev, dhWip.wvChanged, dhWip.values)
  /\ iePrev' = WatchEffect(iePrev, dhWip.ieChanged, dhWip.values)
  /\ ieCleanup' = ImmediateEffect(ieCleanup, dhWip.ieChanged, dhWip.ieCleanup)
  /\ tmPrev' = WatchEffect(tmPrev, dhWip.tmChanged, dhWip.values)
  /\ tmCleanup' = ImmediateEffect(tmCleanup, dhWip.tmChanged, dhWip.tmCleanup)
  /\ tmValue' = TrueMemoEffect(tmValue, tmEffDeps, dhWip.tmNext, dhWip.mount)
  /\ tmEffDeps' = dhWip.tmNext
  /\ dhMounted' = TRUE
  /\ dhWip' = NoDHWip
  /\ dhOp' = "commit"
  /\ dhCalls' = <<>>
  /\ dhBaseline' = IF dhRet.changed \/ dhWip.mount THEN dhWip.values ELSE dhBaseline
  /\ dhCommitted' = [values |-> dhWip.values, memo |-> dhRet.memo,
                     cleanup |-> IF \E i \in 1..Len(dhCalls) : dhCalls[i].f = "effect"
                                 THEN dhWip.ieCleanup ELSE dhCommitted.cleanup]
  /\ UNCHANGED <<dhDead, dhRenders, ieEffects, tmInits, dhRet>>

\* H unmounts: none of the effects of the three hooks returns a cleanup, so
\* nothing of the caller's is invoked.
DHUnmount ==
  /\ dhMounted
  /\ dhMounted' = FALSE
  /\ dhDead' = TRUE
  /\ dhWip' = NoDHWip
  /\ dhOp' = "unmount"
  /\ dhCalls' = <<>>
  /\ UNCHANGED <<dhRenders, wvPrev, iePrev, ieCleanup, ieEffects, tmPrev,
                 tmCleanup, tmValue, tmEffDeps, tmInits, dhBaseline,
                 dhCommitted, dhRet>>

\* ------------------------------------------------------------------------
\* useAsyncEffect
\*
\* The host component calls useAsyncEffect(effect, deps) with
\*   effect = async signal => { await ...; [if (signal.aborted) return;]
\*                              record the result; [return cb] }
\* Every execution of the host effect is an invocation with its own signal,
\* its own `cleanup` variable and its own promise.
\* ------------------------------------------------------------------------

\* Bound on the number of invocations of the async effect.
MaxInvocations == 2

\* The deps a render may pass: none at all, or a list [dep].
EffectDeps == {NoList} \cup {SomeList(<<d>>) : d \in {"pz", "nz"}}

VARIABLES
  aeInv,      \* the invocations, in order of their start
  aeCur,      \* index of the invocation whose cleanup the framework holds, or 0
  aeDeps,     \* deps of the last committed useEffect
  aeMounted,  \* the component is mounted
  aeDead,     \* the component was unmounted
  aeValues,   \* invocations whose callback recorded its result, in order
  aeOp        \* the last operation

varsAE == <<aeInv, aeCur, aeDeps, aeMounted, aeDead, aeValues, aeOp>>

InitAE ==
  /\ aeInv = <<>>
  /\ aeCur = 0
  /\ aeDeps = NoList
  /\ aeMounted = FALSE
  /\ aeDead = FALSE
  /\ aeValues = <<>>
  /\ aeOp = [kind |-> "none", inv |-> 0]

\* The framework's comparison of effect deps: no list means run always.
EffectDepsEqual(prev, next) ==
  /\ prev.set /\ next.set
  /\ \A i \in 1..Len(prev.list) :
        i <= Len(next.list) => ObjectIs(prev.list[i], next.list[i])

\* A new invocation: const signal = { aborted: false }; let cleanup;
\* effect(signal) runs up to its await.
NewInvocation(checks, retCb) ==
  [checks |-> checks, retCb |-> retCb,
   aborted |-> FALSE,      \* signal.aborted
   stage |-> "awaiting",   \* awaiting | resolved | settled
   cb |-> 0,               \* what the promise resolved with: 0 nothing, else the
                           \* cleanup callback of this invocation
   cleanup |-> 0,          \* the variable `cleanup`: 0 unset, else the callback
   runs |-> 0]             \* number of calls of the cleanup callback

\* Mutant: the cleanup marks the signal only when there is a callback to call.
AbortInvocation_AbortOnlyWithCallback(inv) ==
  IF inv.cleanup # 0
  THEN [inv EXCEPT !.runs = @ + 1, !.aborted = TRUE]
  ELSE inv

\* return () => { if (cleanup) cleanup(); signal.aborted = true }
AbortInvocation(inv) ==
  [inv EXCEPT !.runs = IF inv.cleanup # 0 THEN @ + 1 ELSE @,
              !.aborted = TRUE]

\* Mutant: the effect returns no cleanup, so nothing runs for invocation cur.
AfterCleanup_None(invs, cur) == invs

\* The invocations after the cleanup of invocation cur ran (none when cur = 0).
AfterCleanup(invs, cur) ==
  IF cur = 0 THEN invs ELSE [invs EXCEPT ![cur] = AbortInvocation(invs[cur])]

\* A render of the component is committed with deps: on mount, without
\* deps, or with changed deps the cleanup of the running invocation runs and
\* the effect starts a new invocation.
AECommit(deps, checks, retCb) ==
  /\ ~aeDead
  /\ Len(aeInv) < MaxInvocations
  /\ IF aeMounted /\ EffectDepsEqual(aeDeps, deps)
     THEN /\ aeOp' = [kind |-> "commit", inv |-> 0]
          /\ UNCHANGED <<aeInv, aeCur>>
     ELSE /\ aeInv' = Append(AfterCleanup(aeInv, aeCur),
                             NewInvocation(checks, retCb))
          /\ aeCur' = Len(aeInv) + 1
          /\ aeOp' = [kind |-> "rerun", inv |-> aeCur]
  /\ aeDeps' = deps
  /\ aeMounted' = TRUE
  /\ UNCHANGED <<aeDead, aeValues>>

\* The awaited value arrives and the body of the caller's async function
\* runs to its end: it returns early when it checks an aborted signal,
\* otherwise it records its result and returns its cleanup callback, if any.
\* This fulfils the promise effect(signal) returned.
AEResume(i) ==
  /\ i \in 1..Len(aeInv)
  /\ aeInv[i].stage = "awaiting"
  /\ LET stale == aeInv[i].checks /\ aeInv[i].aborted IN
     /\ aeInv' = [aeInv EXCEPT ![i].stage = "resolved",
                               ![i].cb = IF ~stale /\ aeInv[i].retCb THEN i ELSE 0]
     /\ aeValues' = IF stale THEN aeValues ELSE Append(aeValues, i)
  /\ aeOp' = [kind |-> "resume", inv |-> i]
  /\ UNCHANGED <<aeCur, aeDeps, aeMounted, aeDead>>

\* Mutant: the reaction stores the callback whatever the signal says.
ThenReaction_IgnoresSignal(inv) ==
  [inv EXCEPT !.stage = "settled",
              !.cleanup = IF inv.cb # 0 THEN inv.cb ELSE @]

\* cb => { if (cb && !signal.aborted) cleanup = cb }
ThenReaction(inv) ==
  [inv EXCEPT !.stage = "settled",
              !.cleanup = IF inv.cb # 0 /\ ~inv.aborted THEN inv.cb ELSE @]

\* The reaction registered by .then runs.
AEThen(i) ==
  /\ i \in 1..Len(aeInv)
  /\ aeInv[i].stage = "resolved"
  /\ aeInv' = [aeInv EXCEPT ![i] = ThenReaction(aeInv[i])]
  /\ aeOp' = [kind |-> "then", inv |-> i]
  /\ UNCHANGED <<aeCur, aeDeps, aeMounted, aeDead, aeValues>>

\* The component unmounts: the cleanup of the running invocation runs.
AEUnmount ==
  /\ aeMounted
  /\ aeInv' = AfterCleanup(aeInv, aeCur)
  /\ aeCur' = 0
  /\ aeMounted' = FALSE
  /\ aeDead' = TRUE
  /\ aeOp' = [kind |-> "unmount", inv |-> aeCur]
  /\ UNCHANGED <<aeDeps, aeValues>>

\* ------------------------------------------------------------------------
\* useAsyncState
\* ------------------------------------------------------------------------

\* Bound on the number of fetches (invocations of the async effect).
MaxFetches == 3

\* What a fetch resolves with, and what it rejects with.
FetchData == {"d1", "d2"}
FetchErrors == {"e1", "e2"}

\* The deps of the effect, [getData, ...getDataArgs], with one argument.
FetchDeps == {SomeList(<<g, a>>) : g \in {"g1", "g2"}, a \in {"pz", "nz"}}

\* lastLoaded of a state that never loaded; dates are positive ticks.
NoDate == 0

VARIABLES
  asState,     \* the useState value after the updates enqueued so far
  asInv,       \* the invocations of the async effect, oldest first
  asPromise,   \* per invocation, the promise the async callback returned
  asCur,       \* index of the invocation whose cleanup is registered, 0 if none
  asDeps,      \* the deps of the last committed render
  asMounted,   \* the first render has been committed
  asDead,      \* the component was unmounted
  asClock,     \* what new Date() returns next
  asOp         \* the last operation, its invocation, input and the state before

varsAS == <<asState, asInv, asPromise, asCur, asDeps, asMounted, asDead,
            asClock, asOp>>

\* useState<AsyncState<T>>({ loading: false })
InitialAsyncState ==
  [data |-> Undef, lastLoaded |-> NoDate, error |-> Undef, loading |-> FALSE]

NoASOp == [kind |-> "none", inv |-> 0, arg |-> Undef, before |-> InitialAsyncState]

InitAS ==
  /\ asState = InitialAsyncState
  /\ asInv = <<>>
  /\ asPromise = <<>>
  /\ asCur = 0
  /\ asDeps = NoList
  /\ asMounted = FALSE
  /\ asDead = FALSE
  /\ asClock = 1
  /\ asOp = NoASOp

\* setState on a mounted component enqueues the update; the framework drops
\* an update of an unmounted component.
SetAsyncState(dead, state, next) == IF dead THEN state ELSE next

\* Mutant: the state at the start of a fetch spreads the previous state.
FetchStarted_KeepsError(state) == [state EXCEPT !.loading = TRUE]

\* state => ({ data: state.data, lastLoaded: state.lastLoaded, loading: true })
FetchStarted(state) ==
  [data |-> state.data, lastLoaded |-> state.lastLoaded, error |-> Undef,
   loading |-> TRUE]

\* if (signal.aborted) return
\* setState({ data, lastLoaded: new Date(), loading: false })
FetchResolved(state, aborted, data, now) ==
  IF aborted THEN state
  ELSE [data |-> data, lastLoaded |-> now, error |-> Undef, loading |-> FALSE]

\* Mutant: the catch block builds the state without the previous data.
FetchRejected_DropsData(state, error, now) ==
  [data |-> Undef, lastLoaded |-> now, error |-> error, loading |-> FALSE]

\* catch (error) { setState(state => ({ data: state.data,
\*   lastLoaded: new Date(), error, loading: false })) }
FetchRejected(state, error, now) ==
  [data |-> state.data, lastLoaded |-> now, error |-> error, loading |-> FALSE]

\* A render is committed with deps: on mount or with changed deps the cleanup
\* of the running invocation runs and the effect starts a new fetch.
ASCommit(deps) ==
  /\ ~asDead
  /\ Len(asInv) < MaxFetches
  /\ IF asMounted /\ EffectDepsEqual(asDeps, deps)
     THEN /\ asOp' = [kind |-> "commit", inv |-> 0, arg |-> Undef,
                      before |-> asState]
          /\ UNCHANGED <<asState, asInv, asPromise, asCur>>
     ELSE /\ asInv' = Append(AfterCleanup(asInv, asCur),
                             NewInvocation(TRUE, FALSE))
          /\ asPromise' = Append(asPromise, "pending")
          /\ asCur' = Len(asInv) + 1
          /\ asState' = SetAsyncState(asDead, asState, FetchStarted(asState))
          /\ asOp' = [kind |-> "start", inv |-> Len(asInv) + 1, arg |-> Undef,
                      before |-> asState]
  /\ asDeps' = deps
  /\ asMounted' = TRUE
  /\ UNCHANGED <<asDead, asClock>>

\* The promise of getData of invocation i resolves with data: the callback
\* resumes after its await in the try block and returns.
ASResolve(i, data) ==
  /\ i \in 1..Len(asInv)
  /\ asInv[i].stage = "awaiting"
  /\ asInv' = [asInv EXCEPT ![i].stage = "resolved"]
  /\ asPromise' = [asPromise EXCEPT ![i] = "fulfilled"]
  /\ asState' = SetAsyncState(asDead, asState,
                   FetchResolved(asState, asInv[i].aborted, data, asClock))
  /\ asClock' = IF asInv[i].aborted THEN asClock ELSE asClock + 1
  /\ asOp' = [kind |-> "resolve", inv |-> i, arg |-> data, before |-> asState]
  /\ UNCHANGED <<asCur, asDeps, asMounted, asDead>>

\* getData of invocation i throws or its promise rejects with error: the
\* catch block runs and the callback returns.
ASReject(i, error) ==
  /\ i \in 1..Len(asInv)
  /\ asInv[i].stage = "awaiting"
  /\ asInv' = [asInv EXCEPT ![i].stage = "resolved"]
  /\ asPromise' = [asPromise EXCEPT ![i] = "fulfilled"]
  /\ asState' = SetAsyncState(asDead, asState,
                   FetchRejected(asState, error, asClock))
  /\ asClock' = asClock + 1
  /\ asOp' = [kind |-> "reject", inv |-> i, arg |-> error, before |-> asState]
  /\ UNCHANGED <<asCur, asDeps, asMounted, asDead>>

\* The component unmounts: the cleanup of the running invocation runs.
ASUnmount ==
  /\ asMounted
  /\ asInv' = AfterCleanup(asInv, asCur)
  /\ asCur' = 0
  /\ asMounted' = FALSE
  /\ asDead' = TRUE
  /\ asOp' = [kind |-> "unmount", inv |-> asCur, arg |-> Undef,
              before |-> asState]
  /\ UNCHANGED <<asState, asPromise, asDeps, asClock>>

\* ------------------------------------------------------------------------
\* useIsMounted, useUpdateEffect, useUpdateLayoutEffect
\* ------------------------------------------------------------------------

\* Bound on the number of render invocations of the useUpdateEffect host.
MaxUERenders == 4

\* The deps lists a render passes when the host passes one.
UpdateDeps == {SomeList(<<>>), SomeList(<<"pz">>), SomeList(<<"nz">>)}

\* How the host calls the hook: with or without a deps list, with or
\* without includeFirstUpdate, as useUpdateEffect or useUpdateLayoutEffect.
UpdateConfigs == [hasDeps : BOOLEAN, includeFirstUpdate : BOOLEAN, layout : BOOLEAN]

VARIABLES
  ueCfg,        \* how the mounted host calls the hook
  ueRef,        \* isMounted.current of useIsMounted
  ueDeps,       \* the deps of the wrapper effect of the last committed render
  ueUserDeps,   \* the deps list the host passed in the last committed render
  ueWip,        \* the result of the last render invocation not yet committed
  uePending,    \* the passive effects of the last commit not yet flushed
  ueEffects,    \* number of invocations of the caller's effect
  ueUpdates,    \* number of committed updates (commits after the mount)
  ueRenders,    \* number of render invocations
  ueMounted,    \* the first render has been committed
  ueDead,       \* the component was unmounted
  ueChanged     \* some committed update passed a deps list differing from the mount's

varsUE == <<ueCfg, ueRef, ueDeps, ueUserDeps, ueWip, uePending, ueEffects,
            ueUpdates, ueRenders, ueMounted, ueDead, ueChanged>>

NoUEWip == [set |-> FALSE, isMounted |-> FALSE, deps |-> NoList, user |-> NoList]

\* No passive effect waits: neither the effect of useIsMounted nor the wrapper.
NoPending == [mountFx |-> FALSE, wrapper |-> FALSE, isMounted |-> FALSE]

InitUE ==
  /\ ueCfg = [hasDeps |-> FALSE, includeFirstUpdate |-> FALSE, layout |-> FALSE]
  /\ ueRef = FALSE
  /\ ueDeps = NoList
  /\ ueUserDeps = NoList
  /\ ueWip = NoUEWip
  /\ uePending = NoPending
  /\ ueEffects = 0
  /\ ueUpdates = 0
  /\ ueRenders = 0
  /\ ueMounted = FALSE
  /\ ueDead = FALSE
  /\ ueChanged = FALSE

\* The boolean isMounted as an element of a deps list.
BoolToken(b) == IF b THEN "true" ELSE "false"

\* Mutant: includeFirstUpdate is ignored.
WrapperDeps_NoIsMounted(deps, includeFirstUpdate, isMounted) == deps

\* deps ? (includeFirstUpdate ? [isMounted, ...deps] : deps) : undefined
WrapperDeps(deps, includeFirstUpdate, isMounted) ==
  IF ~deps.set THEN NoList
  ELSE IF includeFirstUpdate
       THEN SomeList(<<BoolToken(isMounted)>> \o deps.list)
       ELSE deps

\* Mutant: the wrapper calls the effect without looking at isMounted.
WrapperEffect_NoGuard(isMounted, nEffects) == nEffects + 1

\* () => { if (!isMounted) return; return effect() }: the number of
\* invocations of effect after the wrapper ran with the isMounted it captured.
WrapperEffect(isMounted, nEffects) ==
  IF ~isMounted THEN nEffects ELSE nEffects + 1

\* The passive effects that wait are run, in the order of the hooks: the
\* effect of useIsMounted (isMounted.current = true), then the wrapper.
Flushed(pending, ref, nEffects) ==
  [ref |-> IF pending.mountFx THEN TRUE ELSE ref,
   effects |-> IF pending.wrapper
               THEN WrapperEffect(pending.isMounted, nEffects)
               ELSE nEffects]

\* The body of the hook in a render invocation: useIsMounted returns
\* isMounted.current, the wrapper effect is declared with its deps. The
\* framework flushes waiting passive effects before it renders.
UERenderWith(cfg, deps) ==
  LET f == Flushed(uePending, ueRef, ueEffects)
      isMounted == IF ueMounted THEN f.ref ELSE FALSE
  IN /\ ueRef' = f.ref
     /\ ueEffects' = f.effects
     /\ uePending' = NoPending
     /\ ueWip' = [set |-> TRUE, isMounted |-> isMounted,
                  deps |-> WrapperDeps(deps, cfg.includeFirstUpdate, isMounted),
                  user |-> deps]
     /\ ueRenders' = ueRenders + 1

\* A render invocation of the component being mounted; one that is
\* discarded leaves nothing behind, its refs are made anew by the next.
UEMount(cfg, deps) ==
  /\ ~ueMounted /\ ~ueDead
  /\ ueRenders < MaxUERenders
  /\ deps.set = cfg.hasDeps
  /\ ueCfg' = cfg
  /\ UERenderWith(cfg, deps)
  /\ UNCHANGED <<ueDeps, ueUserDeps, ueUpdates, ueMounted, ueDead, ueChanged>>

\* A render invocation of the mounted component.
UERender(deps) ==
  /\ ueMounted
  /\ ueRenders < MaxUERenders
  /\ deps.set = ueCfg.hasDeps
  /\ UERenderWith(ueCfg, deps)
  /\ UNCHANGED <<ueCfg, ueDeps, ueUserDeps, ueUpdates, ueMounted, ueDead,
                 ueChanged>>

\* The last render invocation is committed. The wrapper effect is scheduled
\* on mount, without deps or with changed deps; the effect of useIsMounted,
\* with deps [], on mount only. A layout effect runs in the commit, passive
\* effects wait for the flush.
UECommit ==
  /\ ueWip.set
  /\ LET f == Flushed(uePending, ueRef, ueEffects)
         scheduled == ~ueMounted \/ ~EffectDepsEqual(ueDeps, ueWip.deps)
     IN /\ ueRef' = f.ref
        /\ ueEffects' = IF scheduled /\ ueCfg.layout
                        THEN WrapperEffect(ueWip.isMounted, f.effects)
                        ELSE f.effects
        /\ uePending' = [mountFx |-> ~ueMounted,
                         wrapper |-> scheduled /\ ~ueCfg.layout,
                         isMounted |-> ueWip.isMounted]
  /\ ueDeps' = ueWip.deps
  /\ ueChanged' = (ueChanged \/ (ueMounted /\ ueWip.user # ueUserDeps))
  /\ ueUserDeps' = ueWip.user
  /\ ueUpdates' = IF ueMounted THEN ueUpdates + 1 ELSE ueUpdates
  /\ ueMounted' = TRUE
  /\ ueWip' = NoUEWip
  /\ UNCHANGED <<ueCfg, ueRenders, ueDead>>

\* The framework flushes the passive effects of the last commit.
UEFlush ==
  /\ uePending # NoPending
  /\ LET f == Flushed(uePending, ueRef, ueEffects)
     IN /\ ueRef' = f.ref
        /\ ueEffects' = f.effects
  /\ uePending' = NoPending
  /\ UNCHANGED <<ueCfg, ueDeps, ueUserDeps, ueWip, ueUpdates, ueRenders,
                 ueMounted, ueDead, ueChanged>>

\* The component unmounts, after the waiting passive effects were flushed.
UEUnmount ==
  /\ ueMounted
  /\ LET f == Flushed(uePending, ueRef, ueEffects)
     IN /\ ueRef' = f.ref
        /\ ueEffects' = f.effects
  /\ uePending' = NoPending
  /\ ueWip' = NoUEWip
  /\ ueMounted' = FALSE
  /\ ueDead' = TRUE
  /\ UNCHANGED <<ueCfg, ueDeps, ueUserDeps, ueUpdates, ueRenders, ueChanged>>

\* ------------------------------------------------------------------------
\* useComputedStatefulRef
\* ------------------------------------------------------------------------

\* Bound on the number of render invocations of the useComputedStatefulRef host.
MaxCRRenders == 3
\* Bound on the number of setter calls outside of a render.
MaxCRSets == 1
\* Number of passes of one render invocation after which the framework
\* throws "Too many re-renders".
MaxPasses == 3

\* The recompute functions a caller may pass: two constants and one that
\* returns a new object on every call.
Recomputes == {"toA", "toNaN", "fresh"}

\* The initial values and the values given to the setter.
ComputedValues == {"NaN", "a"}

\* The overloads: (computeValue, deps) and (initialValue, recomputeValue, deps).
Overloads == {"two", "three"}

\* The deps lists a render may pass: they differ in length or at a position.
ComputedDeps == {<<>>, <<"pz">>, <<"nz">>}

VARIABLES
  crCell,       \* state.current
  crBase,       \* the committed useState value, an object {value}
  crQueue,      \* the useState updates enqueued outside of a render
  crLastRef,    \* lastRef.current
  crNextId,     \* identity of the next object {value} allocated
  crPrev,       \* prevValues.current of useWatchValues(deps)
  crWip,        \* the result of the last render invocation not yet committed
  crMounted,    \* the first render has been committed
  crDead,       \* the component was unmounted or its render threw
  crRenders,    \* number of render invocations
  crSets,       \* number of setter calls outside of a render
  crCommitted,  \* the deps of the last committed render
  crOp          \* the last operation and what it did

varsCR == <<crCell, crBase, crQueue, crLastRef, crNextId, crPrev, crWip,
            crMounted, crDead, crRenders, crSets, crCommitted, crOp>>

NoRef == [id |-> 0, value |-> Undef]
NoCRWip == [live |-> FALSE, ref |-> NoRef, n |-> 0, changed |-> FALSE,
            values |-> <<>>]
NoCROp == [kind |-> "none", form |-> "three", changed |-> FALSE, calls |-> 0,
           passes |-> 0, result |-> Undef, threw |-> FALSE, before |-> Undef,
           values |-> <<>>]

InitCR ==
  /\ crCell = Undef
  /\ crBase = NoRef
  /\ crQueue = <<>>
  /\ crLastRef = NoRef
  /\ crNextId = 1
  /\ crPrev = NoList
  /\ crWip = NoCRWip
  /\ crMounted = FALSE
  /\ crDead = FALSE
  /\ crRenders = 0
  /\ crSets = 0
  /\ crCommitted = <<>>
  /\ crOp = NoCROp

\* if (lastRef.current === ref) { state.current = ref.value }
StatefulRefReset(lastRef, ref, cell) ==
  IF lastRef.id = ref.id THEN ref.value ELSE cell

\* The passes of a render invocation whose deps changed, from pass number
\* `pass` on, entered with the cell and the state object ref of that pass:
\* setState(recomputeValue) is called; a changing call is a state update
\* during render, after which the framework runs the body again with the
\* new state object (which lastRef does not hold, so the cell is kept), and
\* throws when the number of passes reaches its limit.
RECURSIVE ComputedPasses(_, _, _, _, _, _)
ComputedPasses(cell, ref, nextId, recompute, pass, calls) ==
  LET r == setRefState(TRUE, recompute, cell, <<>>, nextId, 0)
      out == [cell |-> r.cell, ref |-> ref, nextId |-> r.nextId,
              calls |-> calls + 1, passes |-> pass, result |-> r.cell,
              threw |-> FALSE]
  IN IF r.queue = <<>> THEN out
     ELSE IF pass >= MaxPasses THEN [out EXCEPT !.threw = TRUE]
     ELSE ComputedPasses(r.cell, r.queue[1], r.nextId, recompute, pass + 1,
                         calls + 1)

\* Mutant: the hook does not look at depsChanged and never recomputes.
ComputedRender_NoRecompute(cell, ref, lastRef, nextId, prev, values, recompute) ==
  [cell |-> StatefulRefReset(lastRef, ref, cell), ref |-> ref, nextId |-> nextId,
   calls |-> 0, passes |-> 1, result |-> Undef, threw |-> FALSE,
   changed |-> WatchChanged(prev, values)]

\* The body of the hook in a render invocation of the mounted component,
\* with the state object ref that useState yields:
\* const depsChanged = useWatchValues(deps); if (depsChanged) setState(recomputeValue)
ComputedRender(cell, ref, lastRef, nextId, prev, values, recompute) ==
  LET reset == StatefulRefReset(lastRef, ref, cell)
      changed == WatchChanged(prev, values)
  IN IF changed
     THEN [changed |-> TRUE] @@ ComputedPasses(reset, ref, nextId, recompute, 1, 0)
     ELSE [cell |-> reset, ref |-> ref, nextId |-> nextId, calls |-> 0,
           passes |-> 1, result |-> Undef, threw |-> FALSE, changed |-> FALSE]

\* The initial value of the cell: useLazyRef(initialValue) calls a function
\* given as initialValue; the two-argument overload passes computeValue.
ComputedInit(form, init, recompute) ==
  IF form = "two" THEN ApplyUpdater(recompute, Undef) ELSE init

\* A render invocation of the component being mounted: the refs are made
\* anew, useWatchValues starts from the deps and reports no change.
CRMount(form, init, recompute, values) ==
  /\ ~crMounted /\ ~crDead
  /\ crRenders < MaxCRRenders
  /\ LET value == ComputedInit(form, init, recompute)
         ref == [id |-> crNextId, value |-> value]
         prev == WatchInit(values, FALSE)
     IN /\ crCell' = StatefulRefReset(ref, ref, value)
        /\ crBase' = ref
        /\ crLastRef' = ref
        /\ crPrev' = prev
        /\ crWip' = [live |-> TRUE, ref |-> ref, n |-> 0,
                     changed |-> WatchChanged(prev, values), values |-> values]
        /\ crOp' = [kind |-> "mount", form |-> form,
                    changed |-> WatchChanged(prev, values),
                    calls |-> IF form = "two" THEN 1 ELSE 0, passes |-> 1,
                    result |-> value, threw |-> FALSE, before |-> crCell,
                    values |-> values]
  /\ crQueue' = <<>>
  /\ crNextId' = crNextId + 1
  /\ crRenders' = crRenders + 1
  /\ UNCHANGED <<crMounted, crDead, crSets, crCommitted>>

\* A render invocation of the mounted component. A render that throws
\* takes the component down.
CRRender(recompute, values) ==
  /\ crMounted
  /\ crRenders < MaxCRRenders
  /\ LET ref == IF Len(crQueue) = 0 THEN crBase ELSE crQueue[Len(crQueue)]
         r == ComputedRender(crCell, ref, crLastRef, crNextId, crPrev, values,
                             recompute)
     IN /\ crCell' = r.cell
        /\ crNextId' = r.nextId
        /\ crWip' = IF r.threw THEN NoCRWip
                    ELSE [live |-> TRUE, ref |-> r.ref, n |-> Len(crQueue),
                          changed |-> r.changed, values |-> values]
        /\ crMounted' = ~r.threw
        /\ crDead' = r.threw
        /\ crOp' = [kind |-> "render", form |-> crOp.form, changed |-> r.changed,
                    calls |-> r.calls, passes |-> r.passes, result |-> r.result,
                    threw |-> r.threw, before |-> crCell, values |-> values]
  /\ crRenders' = crRenders + 1
  /\ UNCHANGED <<crBase, crQueue, crLastRef, crPrev, crSets, crCommitted>>

\* Commit of the last render invocation: the rendered state object becomes
\* the committed one, the effects store it in lastRef and the deps in
\* prevValues when they changed.
CRCommit ==
  /\ crWip.live
  /\ crBase' = crWip.ref
  /\ crQueue' = SubSeq(crQueue, crWip.n + 1, Len(crQueue))
  /\ crLastRef' = crWip.ref
  /\ crPrev' = WatchEffect(crPrev, crWip.changed, crWip.values)
  /\ crCommitted' = crWip.values
  /\ crWip' = NoCRWip
  /\ crMounted' = TRUE
  /\ crOp' = [NoCROp EXCEPT !.kind = "commit", !.form = crOp.form,
                            !.before = crCell]
  /\ UNCHANGED <<crCell, crNextId, crDead, crRenders, crSets>>

\* A call of the returned setter outside of a render.
CRSet(v) ==
  /\ crMounted
  /\ crSets < MaxCRSets
  /\ LET r == setRefState(FALSE, v, crCell, crQueue, crNextId, 0) IN
     /\ crCell' = r.cell
     /\ crQueue' = r.queue
     /\ crNextId' = r.nextId
  /\ crSets' = crSets + 1
  /\ crOp' = [NoCROp EXCEPT !.kind = "set", !.form = crOp.form,
                            !.result = v, !.before = crCell]
  /\ UNCHANGED <<crBase, crLastRef, crPrev, crWip, crMounted, crDead,
                 crRenders, crCommitted>>

\* ------------------------------------------------------------------------
\* useTimeout
\* ------------------------------------------------------------------------

\* Bound on the number of render invocations of the useTimeout host.
MaxTORenders == 3

\* The lists [timeoutMs, ...deps] a render may pass, with one dep.
TimeoutDeps == {<<"ms1", "pz">>, <<"ms1", "nz">>, <<"ms2", "pz">>}

VARIABLES
  toCell,       \* expired.current
  toBase,       \* the committed useState value of useStatefulRef
  toQueue,      \* the useState updates enqueued by setExpired
  toLastRef,    \* lastRef.current of useStatefulRef
  toNextId,     \* identity of the next object {value} allocated
  toPrev,       \* prevValues.current of useWatchValues
  toEffDeps,    \* the deps of the timer effect of the last committed render
  toWip,        \* the result of the last render invocation not yet committed
  toPending,    \* the passive effects of the last commit not yet flushed
  toTimers,     \* the timers made by window.setTimeout, oldest first
  toCur,        \* the timer the registered effect cleanup clears, 0 if none
  toMounted,    \* the first render has been committed
  toDead,       \* the component was unmounted
  toRenders,    \* number of render invocations
  toCommitted,  \* the list [timeoutMs, ...deps] of the last committed render
  toOp          \* the last operation, its list and what the hook returned

varsTO == <<toCell, toBase, toQueue, toLastRef, toNextId, toPrev, toEffDeps,
            toWip, toPending, toTimers, toCur, toMounted, toDead, toRenders,
            toCommitted, toOp>>

NoTOWip == [live |-> FALSE, ref |-> NoRef, n |-> 0, changed |-> FALSE,
            values |-> <<>>]
NoTOPending == [set |-> FALSE, ref |-> NoRef, changed |-> FALSE,
                values |-> <<>>, runEffect |-> FALSE]
NoTOOp == [kind |-> "none", values |-> <<>>, ret |-> Undef, timer |-> 0]

InitTO ==
  /\ toCell = Undef
  /\ toBase = NoRef
  /\ toQueue = <<>>
  /\ toLastRef = NoRef
  /\ toNextId = 1
  /\ toPrev = NoList
  /\ toEffDeps = NoList
  /\ toWip = NoTOWip
  /\ toPending = NoTOPending
  /\ toTimers = <<>>
  /\ toCur = 0
  /\ toMounted = FALSE
  /\ toDead = FALSE
  /\ toRenders = 0
  /\ toCommitted = <<>>
  /\ toOp = NoTOOp

\* const id = window.setTimeout(setExpired, timeoutMs, true): a timer that
\* fires once unless it is cleared before.
SetTimeout(timers) == Append(timers, [state |-> "pending", fired |-> 0])

\* Mutant: the cleanup of the effect clears nothing.
ClearTimeout_Nothing(timers, id) == timers

\* window.clearTimeout(id): a pending timer will not fire; no effect on one
\* that fired.
ClearTimeout(timers, id) ==
  IF id \in 1..Len(timers) /\ timers[id].state = "pending"
  THEN [timers EXCEPT ![id].state = "cleared"]
  ELSE timers

\* The passive effects that wait are run: lastRef.current = ref, the effect
\* of useWatchValues, and, on mount or with changed deps, the cleanup of
\* the timer effect followed by the effect, which starts a timer.
TimeoutFlushed(pending, lastRef, prev, timers, cur) ==
  IF ~pending.set
  THEN [lastRef |-> lastRef, prev |-> prev, timers |-> timers, cur |-> cur]
  ELSE [lastRef |-> pending.ref,
        prev |-> WatchEffect(prev, pending.changed, pending.values),
        timers |-> IF pending.runEffect
                   THEN SetTimeout(ClearTimeout(timers, cur))
                   ELSE timers,
        cur |-> IF pending.runEffect THEN Len(timers) + 1 ELSE cur]

\* A render invocation of the component being mounted:
\* useComputedStatefulRef(() => false, [timeoutMs, ...deps]); the hook
\* returns expired.current.
TOMount(values) ==
  /\ ~toMounted /\ ~toDead
  /\ toRenders < MaxTORenders
  /\ LET value == ComputedInit("two", Undef, "toFalse")
         ref == [id |-> toNextId, value |-> value]
         prev == WatchInit(values, FALSE)
     IN /\ toCell' = StatefulRefReset(ref, ref, value)
        /\ toBase' = ref
        /\ toLastRef' = ref
        /\ toPrev' = prev
        /\ toWip' = [live |-> TRUE, ref |-> ref, n |-> 0,
                     changed |-> WatchChanged(prev, values), values |-> values]
        /\ toOp' = [kind |-> "mount", values |-> values, ret |-> value,
                    timer |-> 0]
  /\ toQueue' = <<>>
  /\ toNextId' = toNextId + 1
  /\ toRenders' = toRenders + 1
  /\ UNCHANGED <<toEffDeps, toPending, toTimers, toCur, toMounted, toDead,
                 toCommitted>>

\* A render invocation of the mounted component; the framework flushes
\* waiting passive effects before it renders.
TORender(values) ==
  /\ toMounted
  /\ toRenders < MaxTORenders
  /\ LET f == TimeoutFlushed(toPending, toLastRef, toPrev, toTimers, toCur)
         ref == IF Len(toQueue) = 0 THEN toBase ELSE toQueue[Len(toQueue)]
         r == ComputedRender(toCell, ref, f.lastRef, toNextId, f.prev, values,
                             "toFalse")
     IN /\ ~r.threw
        /\ toLastRef' = f.lastRef
        /\ toPrev' = f.prev
        /\ toTimers' = f.timers
        /\ toCur' = f.cur
        /\ toCell' = r.cell
        /\ toNextId' = r.nextId
        /\ toWip' = [live |-> TRUE, ref |-> r.ref, n |-> Len(toQueue),
                     changed |-> r.changed, values |-> values]
        /\ toOp' = [kind |-> "render", values |-> values, ret |-> r.cell,
                    timer |-> 0]
  /\ toPending' = NoTOPending
  /\ toRenders' = toRenders + 1
  /\ UNCHANGED <<toBase, toQueue, toEffDeps, toMounted, toDead, toCommitted>>

\* The last render invocation is committed; its passive effects wait.
TOCommit ==
  /\ toWip.live
  /\ LET f == TimeoutFlushed(toPending, toLastRef, toPrev, toTimers, toCur) IN
     /\ toLastRef' = f.lastRef
     /\ toPrev' = f.prev
     /\ toTimers' = f.timers
     /\ toCur' = f.cur
  /\ toBase' = toWip.ref
  /\ toQueue' = SubSeq(toQueue, toWip.n + 1, Len(toQueue))
  /\ toPending' = [set |-> TRUE, ref |-> toWip.ref, changed |-> toWip.changed,
                   values |-> toWip.values,
                   runEffect |-> \/ ~toMounted
                                 \/ ~EffectDepsEqual(toEffDeps,
                                                     SomeList(toWip.values))]
  /\ toEffDeps' = SomeList(toWip.values)
  /\ toCommitted' = toWip.values
  /\ toWip' = NoTOWip
  /\ toMounted' = TRUE
  /\ toOp' = [kind |-> "commit", values |-> toWip.values, ret |-> Undef,
              timer |-> 0]
  /\ UNCHANGED <<toCell, toNextId, toDead, toRenders>>

\* The framework flushes the passive effects of the last commit.
TOFlush ==
  /\ toPending.set
  /\ LET f == TimeoutFlushed(toPending, toLastRef, toPrev, toTimers, toCur) IN
     /\ toLastRef' = f.lastRef
     /\ toPrev' = f.prev
     /\ toTimers' = f.timers
     /\ toCur' = f.cur
  /\ toPending' = NoTOPending
  /\ toOp' = [kind |-> "flush", values |-> toPending.values, ret |-> Undef,
              timer |-> 0]
  /\ UNCHANGED <<toCell, toBase, toQueue, toNextId, toEffDeps, toWip,
                 toMounted, toDead, toRenders, toCommitted>>

\* Timer i fires: setExpired(true).
TOFire(i) ==
  /\ i \in 1..Len(toTimers)
  /\ toTimers[i].state = "pending"
  /\ toTimers' = [toTimers EXCEPT ![i].state = "fired", ![i].fired = @ + 1]
  /\ LET r == setRefState(FALSE, "true", toCell, toQueue, toNextId, 0) IN
     /\ toCell' = r.cell
     /\ toQueue' = r.queue
     /\ toNextId' = r.nextId
  /\ toOp' = [kind |-> "fire", values |-> <<>>, ret |-> Undef, timer |-> i]
  /\ UNCHANGED <<toBase, toLastRef, toPrev, toEffDeps, toWip, toPending,
                 toCur, toMounted, toDead, toRenders, toCommitted>>

\* The component unmounts: waiting passive effects are flushed, then the
\* cleanup of the timer effect runs.
TOUnmount ==
  /\ toMounted
  /\ LET f == TimeoutFlushed(toPending, toLastRef, toPrev, toTimers, toCur) IN
     /\ toLastRef' = f.lastRef
     /\ toPrev' = f.prev
     /\ toTimers' = ClearTimeout(f.timers, f.cur)
  /\ toCur' = 0
  /\ toPending' = NoTOPending
  /\ toWip' = NoTOWip
  /\ toMounted' = FALSE
  /\ toDead' = TRUE
  /\ toOp' = [kind |-> "unmount", values |-> <<>>, ret |-> Undef, timer |-> 0]
  /\ UNCHANGED <<toCell, toBase, toQueue, toNextId, toEffDeps, toRenders,
                 toCommitted>>

\* ------------------------------------------------------------------------
\* shallowEquals, useMeasurable
\* ------------------------------------------------------------------------

\* Bound on the number of calls of measure.
MaxMeasures == 4

\* The keys normalizeRect copies, and the keys of the element's rectangle.
RectKeys == {"left", "top", "right", "bottom", "height", "width"}
DOMRectKeys == RectKeys \cup {"x", "y"}

\* The rectangles getBoundingClientRect may return, numbers as tokens.
BaseRect ==
  [k \in DOMRectKeys |->
     CASE k \in {"left", "x"} -> "1"
       [] k \in {"top", "y", "height", "width"} -> "2"
       [] k = "right" -> "3"
       [] k = "bottom" -> "4"]
Rects == {BaseRect, [BaseRect EXCEPT !["bottom"] = "5", !["height"] = "3"],
          [BaseRect EXCEPT !["right"] = "4", !["width"] = "3"]}

\* JavaScript values of the measurements state: null, a primitive, or the
\* object with identity id and own enumerable fields.
MNull == [t |-> "null", id |-> 0, fields |-> <<>>, hidden |-> <<>>]
MPrim(v) ==
  [t |-> "prim", id |-> 0, fields |-> [k \in {"value"} |-> v], hidden |-> <<>>]
MObj(id, fields) == [t |-> "obj", id |-> id, fields |-> fields, hidden |-> <<>>]

\* An object that has, besides its enumerable own properties, own
\* properties that are not enumerable (the length of an array).
MObjWith(id, fields, hidden) ==
  [t |-> "obj", id |-> id, fields |-> fields, hidden |-> hidden]

\* Object.keys(obj)
ObjectKeys(obj) == DOMAIN obj.fields

\* Object.prototype.hasOwnProperty.call(obj, key)
HasOwnProperty(obj, key) == key \in DOMAIN obj.fields \cup DOMAIN obj.hidden

\* obj[key] for an own property.
GetProperty(obj, key) ==
  IF key \in DOMAIN obj.fields THEN obj.fields[key] ELSE obj.hidden[key]

\* Object.is on these values: objects by identity, primitives by value.
ValueIs(a, b) ==
  /\ a.t = b.t
  /\ a.id = b.id
  /\ a.t = "prim" => ObjectIs(a.fields["value"], b.fields["value"])

\* !value
IsFalsy(v) ==
  \/ v.t = "null"
  \/ v.t = "prim" /\ v.fields["value"] \in {"", "0", "pz", "nz", "NaN", "false"}

\* Mutant: the comparison is by identity only.
shallowEquals_Identity(objA, objB) == ValueIs(objA, objB)

\* shallowEquals(objA, objB)
shallowEquals(objA, objB) ==
  IF ValueIs(objA, objB) THEN TRUE
  ELSE IF objA.t # "obj" \/ objB.t # "obj" THEN FALSE
  ELSE IF Cardinality(ObjectKeys(objA)) # Cardinality(ObjectKeys(objB))
  THEN FALSE
  ELSE \A k \in ObjectKeys(objA) :
          /\ HasOwnProperty(objB, k)
          /\ ObjectIs(GetProperty(objA, k), GetProperty(objB, k))

\* export const iss = shallowEquals
iss(objA, objB) == shallowEquals(objA, objB)

\* normalizeRect(rect): the fields of the new object.
normalizeRect(rect) == [k \in RectKeys |-> rect[k]]

\* The selectors a caller may pass: none, rect => ({ width: rect.width }),
\* () => 'a', and rect => ({ size: { ... } }) with a new inner object.
Selectors == {"none", "width", "const", "nested"}

\* selector(rect), a new object taking the identity id.
Select(selector, rect, id) ==
  CASE selector = "width" -> MObj(id, [k \in {"width"} |-> rect["width"]])
    [] selector = "const" -> MPrim("a")
    [] selector = "nested" -> MObj(id, [k \in {"size"} |-> "obj" \o ToString(id)])

VARIABLES
  msState,      \* the measurements state after the updates enqueued so far
  msRef,        \* ref.current holds an element
  msRect,       \* what the element's getBoundingClientRect returns
  msSelector,   \* the selector of the last committed render, closed over by measure
  msListener,   \* the selector of the measure the registered cleanup removes,
                \* or "unregistered"
  msListeners,  \* the resize listeners of the window, each the selector of
                \* its measure
  msPending,    \* the listener effect of the last commit waits to be flushed
  msNextId,     \* identity of the next object allocated
  msMeasures,   \* number of calls of measure
  msMounted,    \* the first render has been committed
  msDead,       \* the component was unmounted
  msSnapRect,   \* the rectangle the current state was taken from
  msUpdates,    \* number of calls of measure that changed the state
  msScheduled,  \* the state changed since the last commit: a render is due
  msPlain,      \* every commit had no selector and found the element, and
                \* the rectangle never changed
  msOp          \* the last operation and what measure computed

varsMS == <<msState, msRef, msRect, msSelector, msListener, msListeners,
            msPending,
            msNextId, msMeasures, msMounted, msDead, msSnapRect, msUpdates,
            msScheduled, msPlain, msOp>>

NoMSOp == [kind |-> "none", selector |-> "none", measured |-> FALSE,
           before |-> MNull, computed |-> MNull]

InitMS ==
  /\ msState = MNull
  /\ msRef = FALSE
  /\ msRect = BaseRect
  /\ msSelector = "none"
  /\ msListener = "unregistered"
  /\ msListeners = {}
  /\ msPending = FALSE
  /\ msNextId = 1
  /\ msMeasures = 0
  /\ msMounted = FALSE
  /\ msDead = FALSE
  /\ msSnapRect = BaseRect
  /\ msUpdates = 0
  /\ msScheduled = FALSE
  /\ msPlain = TRUE
  /\ msOp = NoMSOp

\* Mutant: the updater returns the new value whatever the state.
MeasureUpdate_AlwaysNext(state, selector, rect, id) ==
  IF selector # "none" THEN Select(selector, rect.fields, id) ELSE rect

\* The updater given to setMeasurements, for the normalized rectangle rect;
\* the objects the selector makes take the identities id and id + 1:
\* nextState = selector ? selector(rect) : rect
\* if (!state) return selector ? selector(rect) : rect
\* return iss(state, nextState) ? state : nextState
MeasureUpdate(state, selector, rect, id) ==
  LET nextState == IF selector # "none" THEN Select(selector, rect.fields, id)
                   ELSE rect
  IN IF IsFalsy(state)
     THEN IF selector # "none" THEN Select(selector, rect.fields, id + 1) ELSE rect
     ELSE IF iss(state, nextState) THEN state ELSE nextState

\* measure() of the render with `selector`: nothing without an element,
\* else the state after the update, what the updater computed and the next
\* free identity.
Measure(state, hasElement, domRect, selector, nextId, dead) ==
  IF ~hasElement
  THEN [state |-> state, measured |-> FALSE, computed |-> MNull, nextId |-> nextId]
  ELSE LET rect == MObj(nextId, normalizeRect(domRect))
           next == MeasureUpdate(state, selector, rect, nextId + 1)
       IN [state |-> IF dead THEN state ELSE next,
           measured |-> TRUE,
           computed |-> IF selector # "none"
                        THEN Select(selector, rect.fields, nextId + 1)
                        ELSE rect,
           nextId |-> nextId + 3]

\* window.addEventListener('resize', measure): a listener that is
\* registered already is not added again.
AddEventListener(listeners, measure) == listeners \cup {measure}

\* Mutant: the cleanup of the listener effect removes nothing.
RemoveEventListener_Nothing(listeners, measure) == listeners

\* window.removeEventListener('resize', measure)
RemoveEventListener(listeners, measure) == listeners \ {measure}

\* The listeners of the window after the waiting listener effect ran: the
\* cleanup of the previous run removes its measure, the effect adds the
\* measure of the committed render.
WindowFlushed(pending, listeners, registered, selector) ==
  IF pending
  THEN AddEventListener(RemoveEventListener(listeners, registered), selector)
  ELSE listeners

\* The listener after the waiting listener effect ran: the cleanup removes
\* the registered one, the effect registers measure of the committed render.
ListenerFlushed(pending, listener, selector) ==
  IF pending THEN selector ELSE listener

\* A call of measure by an operation of the given kind, with the selector
\* its closure holds.
MSMeasureWith(kind, selector, hasElement) ==
  LET r == Measure(msState, hasElement, msRect, selector, msNextId, msDead) IN
  /\ msState' = r.state
  /\ msNextId' = r.nextId
  /\ msMeasures' = msMeasures + 1
  /\ msSnapRect' = IF r.state # msState THEN msRect ELSE msSnapRect
  /\ msUpdates' = IF r.state # msState THEN msUpdates + 1 ELSE msUpdates
  /\ msScheduled' = ((kind # "commit" /\ msScheduled) \/ r.state # msState)
  /\ msOp' = [kind |-> kind, selector |-> selector, measured |-> r.measured,
              before |-> msState, computed |-> r.computed]

\* A render with `selector` is committed; getMeasurable yields an element or
\* not. The layout effect stores the element and measures; the effect that
\* registers the listener waits when measure changed (or on mount).
MSCommit(selector, hasElement) ==
  /\ ~msDead
  /\ msMeasures < MaxMeasures
  /\ msRef' = hasElement
  /\ IF hasElement
     THEN MSMeasureWith("commit", selector, TRUE)
     ELSE /\ msOp' = [NoMSOp EXCEPT !.kind = "commit", !.selector = selector,
                                    !.before = msState]
          /\ msScheduled' = FALSE
          /\ UNCHANGED <<msState, msNextId, msMeasures, msSnapRect, msUpdates>>
  /\ msListener' = ListenerFlushed(msPending, msListener, msSelector)
  /\ msListeners' = WindowFlushed(msPending, msListeners, msListener, msSelector)
  /\ msPending' = (~msMounted \/ selector # msSelector)
  /\ msSelector' = selector
  /\ msPlain' = (msPlain /\ selector = "none" /\ hasElement)
  /\ msMounted' = TRUE
  /\ UNCHANGED <<msRect, msDead>>

\* The framework flushes the listener effect of the last commit.
MSFlush ==
  /\ msPending
  /\ msListener' = ListenerFlushed(msPending, msListener, msSelector)
  /\ msListeners' = WindowFlushed(msPending, msListeners, msListener, msSelector)
  /\ msPending' = FALSE
  /\ msOp' = [NoMSOp EXCEPT !.kind = "flush", !.selector = msSelector,
                            !.before = msState]
  /\ UNCHANGED <<msState, msRef, msRect, msSelector, msNextId, msMeasures,
                 msMounted, msDead, msSnapRect, msUpdates, msScheduled, msPlain>>

\* The window dispatches a resize event: the registered listener runs.
MSResize ==
  /\ msMeasures < MaxMeasures
  /\ \E measure \in msListeners : MSMeasureWith("resize", measure, msRef)
  /\ UNCHANGED <<msRef, msRect, msSelector, msListener, msListeners, msPending,
                 msMounted, msDead, msPlain>>

\* The caller invokes the measure function the hook returned.
MSManualMeasure ==
  /\ msMounted
  /\ msMeasures < MaxMeasures
  /\ MSMeasureWith("manual", msSelector, msRef)
  /\ UNCHANGED <<msRef, msRect, msSelector, msListener, msListeners, msPending,
                 msMounted, msDead, msPlain>>

\* The layout of the page changes the rectangle of the element.
MSRectChange(rect) ==
  /\ msMounted
  /\ rect # msRect
  /\ msRect' = rect
  /\ msOp' = [NoMSOp EXCEPT !.kind = "layout", !.selector = msSelector,
                            !.before = msState]
  /\ msPlain' = FALSE
  /\ UNCHANGED <<msState, msRef, msSelector, msListener, msListeners, msPending,
                 msNextId, msMeasures, msMounted, msDead, msSnapRect, msUpdates,
                 msScheduled>>

\* The component unmounts: the waiting listener effect is flushed, then its
\* cleanup removes the listener.
MSUnmount ==
  /\ msMounted
  /\ msListener' = "unregistered"
  /\ msListeners' = RemoveEventListener(
                       WindowFlushed(msPending, msListeners, msListener, msSelector),
                       msSelector)
  /\ msPending' = FALSE
  /\ msMounted' = FALSE
  /\ msDead' = TRUE
  /\ msOp' = [NoMSOp EXCEPT !.kind = "unmount", !.selector = msSelector,
                            !.before = msState]
  /\ UNCHANGED <<msState, msRef, msRect, msSelector, msNextId, msMeasures,
                 msSnapRect, msUpdates, msScheduled, msPlain>>

\* ------------------------------------------------------------------------
\* createStore
\* ------------------------------------------------------------------------

\* Bound on the number of state objects allocated.
MaxObjects == 4

\* process.env.NODE_ENV
Envs == {"development", "test", "production"}

\* The fields of a state object { a, b }.
StoreFields(a, b) == [k \in {"a", "b"} |-> IF k = "a" THEN a ELSE b]

\* The fields of initialState and of the objects a caller dispatches as
\* replacement state.
InitialFields == StoreFields("0", "0")
StoreValues == {StoreFields("0", "0"), StoreFields("1", "0"), StoreFields("2", "2")}

\* The producers a caller dispatches: draft => { draft.a = '1' },
\* draft => { draft.b = next(draft.b) }, draft => {} and
\* () => ({ a: '2', b: '2' }).
Producers == {"setA", "nextB", "nothing", "returnNew"}

\* What the statements of the producer do to the fields it is given.
ApplyProducer(producer, fields) ==
  CASE producer = "setA" -> [fields EXCEPT !["a"] = "1"]
    [] producer = "nextB" ->
         [fields EXCEPT !["b"] = CASE @ = "0" -> "1" [] @ = "1" -> "2" [] OTHER -> "0"]
    [] OTHER -> fields

VARIABLES
  stEnv,       \* process.env.NODE_ENV of the build, "none" before createStore
  stHeap,      \* the fields of the objects allocated, by identity
  stState,     \* the identity of the reducer state of the Provider
  stMounted,   \* the Provider is mounted
  stDead,      \* the Provider was unmounted
  stOp         \* the last operation, its action and whether the call threw

varsST == <<stEnv, stHeap, stState, stMounted, stDead, stOp>>

NoSTOp == [kind |-> "none", producer |-> "", value |-> 0, before |-> 0,
           threw |-> FALSE]

\* Before createStore is called; the object initialState has identity 1.
InitST ==
  /\ stEnv = "none"
  /\ stHeap = <<InitialFields>>
  /\ stState = 1
  /\ stMounted = FALSE
  /\ stDead = FALSE
  /\ stOp = NoSTOp

\* Mutant: the producer is applied to the state object itself.
produce_InPlace(heap, base, producer) ==
  [heap |-> [heap EXCEPT ![base] = ApplyProducer(producer, heap[base])],
   state |-> base]

\* produce(state, producer) of immer: the producer runs on a draft of the
\* state; a value it returns becomes the result; else the result is a new
\* object holding the changes made to the draft, or the state itself
\* when nothing changed. The state object is never written.
produce(heap, base, producer) ==
  IF producer = "returnNew"
  THEN [heap |-> Append(heap, StoreFields("2", "2")), state |-> Len(heap) + 1]
  ELSE LET fields == ApplyProducer(producer, heap[base]) IN
       IF fields = heap[base]
       THEN [heap |-> heap, state |-> base]
       ELSE [heap |-> Append(heap, fields), state |-> Len(heap) + 1]

\* reducer(state, action): typeof action === 'function'
\*   ? produce(state, action) : action
reducer(heap, state, isFn, producer, value) ==
  IF isFn THEN produce(heap, state, producer)
  ELSE [heap |-> heap, state |-> value]

\* Mutant: the default dispatch does nothing in every build.
DefaultDispatch_Silent(env) == FALSE

\* The default value of DispatchCtx: whether the call throws.
\* () => { if (process.env.NODE_ENV === 'development') throw new Error(...) }
DefaultDispatch(env) == env = "development"

\* createStore(initialState) in a build with the given NODE_ENV.
STCreateStore(env) ==
  /\ stEnv = "none"
  /\ stEnv' = env
  /\ stOp' = [NoSTOp EXCEPT !.kind = "create", !.before = stState]
  /\ UNCHANGED <<stHeap, stState, stMounted, stDead>>

\* The Provider mounts: useReducer(reducer, initialState).
STMount ==
  /\ stEnv # "none"
  /\ ~stMounted /\ ~stDead
  /\ stMounted' = TRUE
  /\ stState' = 1
  /\ stOp' = [NoSTOp EXCEPT !.kind = "mount", !.before = stState]
  /\ UNCHANGED <<stEnv, stHeap, stDead>>

\* A consumer inside the Provider dispatches a new object with the given
\* fields as replacement state.
STDispatchValue(fields) ==
  /\ stMounted
  /\ Len(stHeap) < MaxObjects
  /\ LET value == Len(stHeap) + 1
         r == reducer(Append(stHeap, fields), stState, FALSE, "", value)
     IN /\ stHeap' = r.heap
        /\ stState' = r.state
        /\ stOp' = [kind |-> "dispatch", producer |-> "", value |-> value,
                    before |-> stState, threw |-> FALSE]
  /\ UNCHANGED <<stEnv, stMounted, stDead>>

\* A consumer inside the Provider dispatches a producer.
STDispatchProducer(producer) ==
  /\ stMounted
  /\ Len(stHeap) < MaxObjects
  /\ LET r == reducer(stHeap, stState, TRUE, producer, 0) IN
     /\ stHeap' = r.heap
     /\ stState' = r.state
  /\ stOp' = [kind |-> "dispatch", producer |-> producer, value |-> 0,
              before |-> stState, threw |-> FALSE]
  /\ UNCHANGED <<stEnv, stMounted, stDead>>

\* A consumer with no enclosing Provider calls the dispatch it got from
\* useDispatch or useStore, with a producer or a value.
STDispatchOutside(producer) ==
  /\ stEnv # "none"
  /\ stOp' = [kind |-> "outside", producer |-> producer, value |-> 0,
              before |-> stState, threw |-> DefaultDispatch(stEnv)]
  /\ UNCHANGED <<stEnv, stHeap, stState, stMounted, stDead>>

\* The Provider unmounts.
STUnmount ==
  /\ stMounted
  /\ stMounted' = FALSE
  /\ stDead' = TRUE
  /\ stOp' = [NoSTOp EXCEPT !.kind = "unmount", !.before = stState]
  /\ UNCHANGED <<stEnv, stHeap, stState>>

\* ------------------------------------------------------------------------
\* shallowEquals as a function of its two arguments
\* ------------------------------------------------------------------------

\* The objects the arguments are drawn from, by identity:
\*   1: {a: 1}   2: {a: 1}   3: {a: 1, b: 2}   4: {a: NaN}   5: {a: NaN}
\*   6: {a: +0}  7: {a: -0}  8: {a: undefined}  9: {b: undefined}
\*   10: {n: o1} 11: {n: o2} 12: {length: 1}    13: ['x']    14: {}
ShallowFields(id) ==
  CASE id = 1 -> [k \in {"a"} |-> "1"]
    [] id = 2 -> [k \in {"a"} |-> "1"]
    [] id = 3 -> [k \in {"a", "b"} |-> IF k = "a" THEN "1" ELSE "2"]
    [] id = 4 -> [k \in {"a"} |-> "NaN"]
    [] id = 5 -> [k \in {"a"} |-> "NaN"]
    [] id = 6 -> [k \in {"a"} |-> "pz"]
    [] id = 7 -> [k \in {"a"} |-> "nz"]
    [] id = 8 -> [k \in {"a"} |-> Undef]
    [] id = 9 -> [k \in {"b"} |-> Undef]
    [] id = 10 -> [k \in {"n"} |-> "o1"]
    [] id = 11 -> [k \in {"n"} |-> "o2"]
    [] id = 12 -> [k \in {"length"} |-> "1"]
    [] id = 13 -> [k \in {"0"} |-> "x"]
    [] OTHER -> [k \in {} |-> ""]

ShallowObjects ==
  {IF id = 13 THEN MObjWith(id, ShallowFields(id), [k \in {"length"} |-> "1"])
   ELSE MObj(id, ShallowFields(id)) : id \in 1..14}

ShallowValues ==
  {MNull, MPrim(Undef), MPrim("NaN"), MPrim("pz"), MPrim("nz"), MPrim("1")}
    \cup ShallowObjects

VARIABLES
  seA,        \* the first argument of the last call
  seB,        \* the second argument of the last call
  seResult,   \* shallowEquals(seA, seB)
  seSwapped,  \* shallowEquals(seB, seA)
  seOp        \* "none", "call" after the call, "swap" after the swapped call

varsSE == <<seA, seB, seResult, seSwapped, seOp>>

InitSE ==
  /\ seA = MNull
  /\ seB = MNull
  /\ seResult = TRUE
  /\ seSwapped = TRUE
  /\ seOp = "none"

\* const result = shallowEquals(objA, objB)
SEShallowEquals(objA, objB) ==
  /\ seA' = objA
  /\ seB' = objB
  /\ seResult' = shallowEquals(objA, objB)
  /\ seOp' = "call"
  /\ UNCHANGED seSwapped

\* const swapped = iss(objB, objA), for the arguments of the last call
SESwapped ==
  /\ seOp = "call"
  /\ seSwapped' = iss(seB, seA)
  /\ seOp' = "swap"
  /\ UNCHANGED <<seA, seB, seResult>>

\* ------------------------------------------------------------------------
\* Array helpers: truthy, splice
\* ------------------------------------------------------------------------

\* Bound on the length of the arrays given to the helpers.
MaxArrayLen == 3

\* The elements of the arrays: null, undefined, false, 0, '' and 'a'.
Elements == {"null", Undef, "false", "0", "", "a"}

RECURSIVE ArraysOf(_)
ArraysOf(n) ==
  IF n = 0 THEN {<<>>}
  ELSE LET shorter == ArraysOf(n - 1) IN
       shorter \cup {Append(a, e) : a \in {s \in shorter : Len(s) = n - 1}, e \in Elements}

Arrays == ArraysOf(MaxArrayLen)

\* The map functions given to truthy: none, or (val, idx) => val + '@' + idx.
Maps == {"none", "tag"}
MapCall(map, val, idx) == val \o "@" \o ToString(idx)

\* The arguments given to splice: start, deleteCount (or none), newElements.
Starts == {-1, 0, 1, 2}
DeleteCounts == {0, 1, 2}
NewElementLists == {<<>>, <<"a">>}

\* Mutant: only null, undefined and false convert to false.
Boolean_Nullish(val) == val \notin {"null", Undef, "false"}

\* Boolean(val)
Boolean(val) == val \notin {"null", Undef, "false", "0", "", "NaN", "pz", "nz"}

\* array.reduce((acc, val, idx, array) => { if (Boolean(val))
\* acc.push(map(val, idx, array)); return acc }, []) from position i on;
\* idx counts from 0.
RECURSIVE TruthyReduce(_, _, _, _)
TruthyReduce(array, map, i, acc) ==
  IF i > Len(array) THEN acc
  ELSE TruthyReduce(array, map, i + 1,
                    IF Boolean(array[i])
                    THEN Append(acc, MapCall(map, array[i], i - 1))
                    ELSE acc)

\* truthy(array, map?)
truthy(array, map) ==
  IF map = "none" THEN SelectSeq(array, Boolean)
  ELSE TruthyReduce(array, map, 1, <<>>)

\* newArray.splice(start, deleteCount, ...newElements) and
\* newArray.splice(start) of the language, as the array left behind.
ArraySplice(array, start, hasDeleteCount, deleteCount, newElements) ==
  LET len == Len(array)
      from == IF start < 0
              THEN (IF len + start > 0 THEN len + start ELSE 0)
              ELSE (IF start < len THEN start ELSE len)
      count == IF ~hasDeleteCount THEN len - from
               ELSE IF deleteCount < len - from THEN deleteCount ELSE len - from
  IN SubSeq(array, 1, from)
       \o (IF hasDeleteCount THEN newElements ELSE <<>>)
       \o SubSeq(array, from + count + 1, len)

\* Mutant: splice returns the copy it computed.
splice_ReturnsNewArray(array, start, hasDeleteCount, deleteCount, newElements) ==
  LET newArray == ArraySplice(array, start, hasDeleteCount, deleteCount, newElements)
  IN [result |-> newArray, newArray |-> newArray, array |-> array]

\* splice(array, start, deleteCount?, ...newElements): the value returned,
\* the local newArray and the input array after the call.
splice(array, start, hasDeleteCount, deleteCount, newElements) ==
  LET newArray == ArraySplice(array, start, hasDeleteCount, deleteCount, newElements)
  IN [result |-> SubSeq(array, 2, 1),
      newArray |-> newArray,
      array |-> ArraySplice(array, 1, TRUE, 0, <<>>)]

VARIABLES
  arIn,        \* the elements of the input array before the call
  arArray,     \* the elements of the input array after the call
  arResult,    \* the array returned
  arNewArray,  \* splice: the local newArray
  arOp         \* the call and its arguments

varsAR == <<arIn, arArray, arResult, arNewArray, arOp>>

NoAROp == [kind |-> "none", map |-> "none", start |-> 0, hasDeleteCount |-> FALSE,
           deleteCount |-> 0, newElements |-> <<>>]

InitAR ==
  /\ arIn = <<>>
  /\ arArray = <<>>
  /\ arResult = <<>>
  /\ arNewArray = <<>>
  /\ arOp = NoAROp

\* const result = truthy(array, map), as the first call
ARTruthy ==
  /\ arOp.kind = "none"
  /\ \E array \in Arrays, map \in Maps :
       /\ arIn' = array
       /\ arArray' = array
       /\ arResult' = truthy(array, map)
       /\ arOp' = [NoAROp EXCEPT !.kind = "truthy", !.map = map]
  /\ UNCHANGED arNewArray

\* const result = splice(array, start, deleteCount, ...newElements), or
\* splice(array, start) when hasDeleteCount is false, as the first call
ARSplice ==
  /\ arOp.kind = "none"
  /\ \E array \in Arrays, start \in Starts, hasDeleteCount \in BOOLEAN,
        deleteCount \in DeleteCounts, newElements \in NewElementLists :
       /\ hasDeleteCount \/ (deleteCount = 0 /\ newElements = <<>>)
       /\ LET r == splice(array, start, hasDeleteCount, deleteCount, newElements) IN
          /\ arIn' = array
          /\ arArray' = r.array
          /\ arResult' = r.result
          /\ arNewArray' = r.newArray
       /\ arOp' = [kind |-> "splice", map |-> "none", start |-> start,
                   hasDeleteCount |-> hasDeleteCount, deleteCount |-> deleteCount,
                   newElements |-> newElements]

\* ------------------------------------------------------------------------
\* String helpers: capitalize, kebabCaseToCamelCase
\* ------------------------------------------------------------------------

\* Bound on the length of the strings given to the helpers.
MaxStrLen == 3

\* A string is the sequence of its characters.
Chars == {"a", "b", "B", "-"}

RECURSIVE StringsOf(_)
StringsOf(n) ==
  IF n = 0 THEN {<<>>}
  ELSE LET shorter == StringsOf(n - 1) IN
       shorter \cup {Append(s, c) : s \in {t \in shorter : Len(t) = n - 1}, c \in Chars}

Strings == StringsOf(MaxStrLen)

\* c.toUpperCase() for one character.
ToUpperCase(c) == CASE c = "a" -> "A" [] c = "b" -> "B" [] OTHER -> c

\* The outcome of a call: the string returned, or a TypeError thrown.
Returned(value) == [threw |-> FALSE, value |-> value]
Thrown == [threw |-> TRUE, value |-> <<>>]

\* capitalize(str): str[0].toUpperCase() + str.slice(1); str[0] of the
\* empty string is undefined, and the call of toUpperCase on it throws.
capitalize(str) ==
  IF Len(str) = 0 THEN Thrown
  ELSE Returned(<<ToUpperCase(str[1])>> \o SubSeq(str, 2, Len(str)))

\* str.split('-') from position i on, cur being the segment read so far.
RECURSIVE Split(_, _, _)
Split(str, i, cur) ==
  IF i > Len(str) THEN <<cur>>
  ELSE IF str[i] = "-" THEN <<cur>> \o Split(str, i + 1, <<>>)
  ELSE Split(str, i + 1, Append(cur, str[i]))

\* segments.map(capitalize).join('') from position i on.
RECURSIVE MapJoin(_, _)
MapJoin(segments, i) ==
  IF i > Len(segments) THEN Returned(<<>>)
  ELSE LET first == capitalize(segments[i]) IN
       IF first.threw THEN Thrown
       ELSE LET rest == MapJoin(segments, i + 1) IN
            IF rest.threw THEN Thrown ELSE Returned(first.value \o rest.value)

\* kebabCaseToCamelCase(str)
kebabCaseToCamelCase(str) == MapJoin(Split(str, 1, <<>>), 1)

VARIABLES
  ccStr,     \* the argument of the last call
  ccResult,  \* its outcome
  ccOp       \* "none", "capitalize" or "kebabCaseToCamelCase"

varsCC == <<ccStr, ccResult, ccOp>>

InitCC ==
  /\ ccStr = <<>>
  /\ ccResult = Returned(<<>>)
  /\ ccOp = "none"

\* capitalize(str)
CCCapitalize(str) ==
  /\ ccStr' = str
  /\ ccResult' = capitalize(str)
  /\ ccOp' = "capitalize"

\* kebabCaseToCamelCase(str)
CCKebabCaseToCamelCase(str) ==
  /\ ccStr' = str
  /\ ccResult' = kebabCaseToCamelCase(str)
  /\ ccOp' = "kebabCaseToCamelCase"

\* ------------------------------------------------------------------------
\* useWatchValues under repeated render invocations
\*
\* The host component is H = ({dep}) => useWatchValues(values, includeOnMount)
\* with includeOnMount a literal of H.  The framework may invoke the render
\* of H several times before it commits one invocation (the double render
\* of StrictMode, renders that are interrupted or discarded); it commits the
\* last one, and the passive effect of the commit has run before the next
\* invocation starts.
\* ------------------------------------------------------------------------

\* Bound on the number of render invocations of H.
MaxWVRenders == 4

\* The lists the invocations pass.
WatchLists == {<<>>, <<"NaN">>, <<"pz">>, <<"nz">>, <<"pz", "pz">>}

VARIABLES
  wvRef,        \* prevValues.current
  wvInclude,    \* includeOnMount is truthy
  wvMounted,    \* an invocation has been committed and H is not unmounted
  wvDead,       \* H was unmounted
  wvRenders,    \* number of render invocations
  wvWip,        \* the last render invocation not yet committed
  wvSince,      \* list and result of the invocations since the last commit
  wvBaseline,   \* list of the last committed invocation that reported
                \* changed, or of the committed mount
  wvOp          \* the last operation

varsWV == <<wvRef, wvInclude, wvMounted, wvDead, wvRenders, wvWip, wvSince,
            wvBaseline, wvOp>>

NoWVWip == [live |-> FALSE, mount |-> FALSE, values |-> <<>>, changed |-> FALSE]

InitWV ==
  /\ wvRef = NoList
  /\ wvInclude = FALSE
  /\ wvMounted = FALSE
  /\ wvDead = FALSE
  /\ wvRenders = 0
  /\ wvWip = NoWVWip
  /\ wvSince = <<>>
  /\ wvBaseline = <<>>
  /\ wvOp = "none"

\* A render invocation of H before its first commit: useRef creates the
\* ref.  includeOnMount is chosen by the first invocation.
WVMount(values, includeOnMount) ==
  /\ ~wvMounted /\ ~wvDead
  /\ wvRenders < MaxWVRenders
  /\ wvRenders > 0 => includeOnMount = wvInclude
  /\ LET ref == WatchInit(values, includeOnMount)
         changed == WatchChanged(ref, values)
     IN /\ wvRef' = WatchBody(ref, values)
        /\ wvWip' = [live |-> TRUE, mount |-> TRUE, values |-> values,
                     changed |-> changed]
        /\ wvSince' = Append(wvSince, [values |-> values, changed |-> changed])
  /\ wvInclude' = includeOnMount
  /\ wvRenders' = wvRenders + 1
  /\ wvOp' = "mount"
  /\ UNCHANGED <<wvMounted, wvDead, wvBaseline>>

\* A render invocation of the mounted H.
WVRender(values) ==
  /\ wvMounted
  /\ wvRenders < MaxWVRenders
  /\ LET changed == WatchChanged(wvRef, values) IN
     /\ wvRef' = WatchBody(wvRef, values)
     /\ wvWip' = [live |-> TRUE, mount |-> FALSE, values |-> values,
                  changed |-> changed]
     /\ wvSince' = Append(wvSince, [values |-> values, changed |-> changed])
  /\ wvRenders' = wvRenders + 1
  /\ wvOp' = "render"
  /\ UNCHANGED <<wvInclude, wvMounted, wvDead, wvBaseline>>

\* Commit of the last render invocation, and its passive effect.
WVCommit ==
  /\ wvWip.live
  /\ wvRef' = WatchEffect(wvRef, wvWip.changed, wvWip.values)
  /\ wvBaseline' = IF wvWip.changed \/ wvWip.mount THEN wvWip.values
                   ELSE wvBaseline
  /\ wvMounted' = TRUE
  /\ wvWip' = NoWVWip
  /\ wvSince' = <<>>
  /\ wvOp' = "commit"
  /\ UNCHANGED <<wvInclude, wvDead, wvRenders>>

\* H unmounts; the effect returns no cleanup.
WVUnmount ==
  /\ wvMounted
  /\ wvMounted' = FALSE
  /\ wvDead' = TRUE
  /\ wvWip' = NoWVWip
  /\ wvSince' = <<>>
  /\ wvOp' = "unmount"
  /\ UNCHANGED <<wvRef, wvInclude, wvRenders, wvBaseline>>

\* ------------------------------------------------------------------------
\* useStoplightState
\*
\* The host component calls useStoplightState(states, loop, initialIdx) with
\* a list of fixed length; the callers of next and prev use the functions
\* returned by the last committed render.
\* ------------------------------------------------------------------------

\* Bound on the length of the list of states.
MaxStates == 5

VARIABLES
  slLength,   \* states.length
  slLoop,     \* loop of the last committed render
  slIdx,      \* idx, the useState value
  slMounted,  \* the component is mounted
  slOp        \* the last operation and the index before it

varsSL == <<slLength, slLoop, slIdx, slMounted, slOp>>

InitSL ==
  /\ slLength = 1
  /\ slLoop = FALSE
  /\ slIdx = 0
  /\ slMounted = FALSE
  /\ slOp = [kind |-> "none", before |-> 0]

\* Mutant: next moves up without looking at the length.
next_Unbounded(idx, length, loop) == idx + 1

\* idx => (idx + 1 < states.length ? idx + 1 : loop ? 0 : idx)
next(idx, length, loop) ==
  IF idx + 1 < length THEN idx + 1 ELSE IF loop THEN 0 ELSE idx

\* idx => (idx - 1 >= 0 ? idx - 1 : loop ? states.length - 1 : idx)
prev(idx, length, loop) ==
  IF idx - 1 >= 0 THEN idx - 1 ELSE IF loop THEN length - 1 ELSE idx

\* The first render and its commit: useState(initialIdx).
SLMount(length, loop, initialIdx) ==
  /\ ~slMounted
  /\ slOp.kind = "none"
  /\ slLength' = length
  /\ slLoop' = loop
  /\ slIdx' = initialIdx
  /\ slMounted' = TRUE
  /\ slOp' = [kind |-> "mount", before |-> slIdx]

\* A render with another loop argument, committed: useCallback makes new
\* next and prev.
SLRender(loop) ==
  /\ slMounted
  /\ loop # slLoop
  /\ slLoop' = loop
  /\ slOp' = [kind |-> "render", before |-> slIdx]
  /\ UNCHANGED <<slLength, slIdx, slMounted>>

\* A call of next.
SLNext ==
  /\ slMounted
  /\ slIdx' = next(slIdx, slLength, slLoop)
  /\ slOp' = [kind |-> "next", before |-> slIdx]
  /\ UNCHANGED <<slLength, slLoop, slMounted>>

\* A call of prev.
SLPrev ==
  /\ slMounted
  /\ slIdx' = prev(slIdx, slLength, slLoop)
  /\ slOp' = [kind |-> "prev", before |-> slIdx]
  /\ UNCHANGED <<slLength, slLoop, slMounted>>

\* ------------------------------------------------------------------------
\* useLazyRef
\*
\* The host component calls useLazyRef(init).  The k-th call of the init
\* function returns a new object, identified by k; an init that is not a
\* function is the value PlainInit.
\* ------------------------------------------------------------------------

\* Bound on the number of render invocations of the useLazyRef host.
MaxLRRenders == 4

\* The value given as init when it is not a function, and the values the
\* caller assigns to `current`.
PlainInit == 0
Assigned == {-1, -2}

VARIABLES
  lrIsFn,      \* init is a function
  lrNaked,     \* nakedValue, the useState value
  lrCurrent,   \* value.current
  lrRefId,     \* identity of the ref object made by useRef
  lrInits,     \* number of calls of init
  lrCalls,     \* number of calls of init for the hook state in use
  lrRenders,   \* number of render invocations
  lrMounted,   \* the first render has been committed
  lrFirst,     \* `current` returned by the mount render of the hook state
  lrAssigned,  \* the caller assigned `current` since then
  lrRet,       \* identity and `current` of the ref the last render returned
  lrOp         \* the last operation

varsLR == <<lrIsFn, lrNaked, lrCurrent, lrRefId, lrInits, lrCalls, lrRenders,
            lrMounted, lrFirst, lrAssigned, lrRet, lrOp>>

InitLR ==
  /\ lrIsFn = FALSE
  /\ lrNaked = PlainInit
  /\ lrCurrent = PlainInit
  /\ lrRefId = 0
  /\ lrInits = 0
  /\ lrCalls = 0
  /\ lrRenders = 0
  /\ lrMounted = FALSE
  /\ lrFirst = PlainInit
  /\ lrAssigned = FALSE
  /\ lrRet = [id |-> 0, current |-> PlainInit]
  /\ lrOp = "none"

\* Mutant: the initializer runs in every render and its result is used.
LazyState_EveryRender(mount, isFn, naked, inits) ==
  IF isFn THEN [value |-> inits + 1, inits |-> inits + 1, called |-> 1]
  ELSE [value |-> PlainInit, inits |-> inits, called |-> 0]

\* const [nakedValue] = useState(init): the state, the number of calls of
\* init so far and the number of calls made by this render.
LazyState(mount, isFn, naked, inits) ==
  IF mount
  THEN IF isFn THEN [value |-> inits + 1, inits |-> inits + 1, called |-> 1]
       ELSE [value |-> PlainInit, inits |-> inits, called |-> 0]
  ELSE [value |-> naked, inits |-> inits, called |-> 0]

\* A render invocation before the first commit: useState and useRef make
\* new hook state.
LRMount(isFn) ==
  /\ ~lrMounted
  /\ lrRenders < MaxLRRenders
  /\ lrRenders > 0 => isFn = lrIsFn
  /\ LET st == LazyState(TRUE, isFn, lrNaked, lrInits) IN
     /\ lrNaked' = st.value
     /\ lrCurrent' = st.value
     /\ lrInits' = st.inits
     /\ lrCalls' = st.called
     /\ lrFirst' = st.value
     /\ lrRet' = [id |-> lrRenders + 1, current |-> st.value]
  /\ lrIsFn' = isFn
  /\ lrRefId' = lrRenders + 1
  /\ lrRenders' = lrRenders + 1
  /\ lrAssigned' = FALSE
  /\ lrOp' = "mount"
  /\ UNCHANGED lrMounted

\* The commit of the last render invocation.
LRCommit ==
  /\ lrOp \in {"mount", "render"}
  /\ lrMounted' = TRUE
  /\ lrOp' = "commit"
  /\ UNCHANGED <<lrIsFn, lrNaked, lrCurrent, lrRefId, lrInits, lrCalls,
                 lrRenders, lrFirst, lrAssigned, lrRet>>

\* A render invocation of the mounted component: useRef returns the ref it
\* made in the mount render.
LRRender ==
  /\ lrMounted
  /\ lrRenders < MaxLRRenders
  /\ LET st == LazyState(FALSE, lrIsFn, lrNaked, lrInits) IN
     /\ lrNaked' = st.value
     /\ lrInits' = st.inits
     /\ lrCalls' = lrCalls + st.called
  /\ lrRet' = [id |-> lrRefId, current |-> lrCurrent]
  /\ lrRenders' = lrRenders + 1
  /\ lrOp' = "render"
  /\ UNCHANGED <<lrIsFn, lrCurrent, lrRefId, lrMounted, lrFirst, lrAssigned>>

\* The caller assigns `current` of the ref it was given.
LRAssign(v) ==
  /\ lrMounted
  /\ lrCurrent' = v
  /\ lrAssigned' = TRUE
  /\ lrOp' = "assign"
  /\ UNCHANGED <<lrIsFn, lrNaked, lrRefId, lrInits, lrCalls, lrRenders,
                 lrMounted, lrFirst, lrRet>>

\* ------------------------------------------------------------------------
\* Specifications
\* ------------------------------------------------------------------------

vars == <<varsSR, varsDH, varsAE, varsAS, varsUE, varsCR, varsTO, varsMS, varsST, varsSE, varsAR, varsCC, varsWV, varsSL, varsLR>>

Init == InitSR /\ InitDH /\ InitAE /\ InitAS /\ InitUE /\ InitCR /\ InitTO /\ InitMS /\ InitST /\ InitSE /\ InitAR /\ InitCC /\ InitWV /\ InitSL /\ InitLR

\* The host of useStatefulRef.
NextSR ==
  \/ \E init \in Values \cup {Undef} : SRMount(init) /\ UNCHANGED <<varsDH, varsAE, varsAS, varsUE, varsCR, varsTO, varsMS, varsST, varsSE, varsAR, varsCC, varsWV, varsSL, varsLR>>
  \/ SRRender /\ UNCHANGED <<varsDH, varsAE, varsAS, varsUE, varsCR, varsTO, varsMS, varsST, varsSE, varsAR, varsCC, varsWV, varsSL, varsLR>>
  \/ SRCommit /\ UNCHANGED <<varsDH, varsAE, varsAS, varsUE, varsCR, varsTO, varsMS, varsST, varsSE, varsAR, varsCC, varsWV, varsSL, varsLR>>
  \/ \E v \in Values : SRSet(FALSE, v) /\ UNCHANGED <<varsDH, varsAE, varsAS, varsUE, varsCR, varsTO, varsMS, varsST, varsSE, varsAR, varsCC, varsWV, varsSL, varsLR>>
  \/ \E f \in Updaters : SRSet(TRUE, f) /\ UNCHANGED <<varsDH, varsAE, varsAS, varsUE, varsCR, varsTO, varsMS, varsST, varsSE, varsAR, varsCC, varsWV, varsSL, varsLR>>
  \/ \E v \in Values : SRAssign(v) /\ UNCHANGED <<varsDH, varsAE, varsAS, varsUE, varsCR, varsTO, varsMS, varsST, varsSE, varsAR, varsCC, varsWV, varsSL, varsLR>>

SpecSR == Init /\ [][NextSR]_vars

\* The host of useWatchValues, useImmediateEffect and useTrueMemo.
NextDH ==
  \/ \E values \in DepLists, includeOnMount \in BOOLEAN, retCleanup \in BOOLEAN,
        initFn \in InitFns :
        DHMount(values, includeOnMount, retCleanup, initFn)
        /\ UNCHANGED <<varsSR, varsAE, varsAS, varsUE, varsCR, varsTO, varsMS, varsST, varsSE, varsAR, varsCC, varsWV, varsSL, varsLR>>
  \/ \E values \in DepLists, retCleanup \in BOOLEAN, initFn \in InitFns :
        DHRender(values, retCleanup, initFn) /\ UNCHANGED <<varsSR, varsAE, varsAS, varsUE, varsCR, varsTO, varsMS, varsST, varsSE, varsAR, varsCC, varsWV, varsSL, varsLR>>
  \/ DHCommit /\ UNCHANGED <<varsSR, varsAE, varsAS, varsUE, varsCR, varsTO, varsMS, varsST, varsSE, varsAR, varsCC, varsWV, varsSL, varsLR>>
  \/ DHUnmount /\ UNCHANGED <<varsSR, varsAE, varsAS, varsUE, varsCR, varsTO, varsMS, varsST, varsSE, varsAR, varsCC, varsWV, varsSL, varsLR>>

SpecDH == Init /\ [][NextDH]_vars

\* The host of useAsyncEffect.
NextAE ==
  \/ \E deps \in EffectDeps, checks \in BOOLEAN, retCb \in BOOLEAN :
        AECommit(deps, checks, retCb) /\ UNCHANGED <<varsSR, varsDH, varsAS, varsUE, varsCR, varsTO, varsMS, varsST, varsSE, varsAR, varsCC, varsWV, varsSL, varsLR>>
  \/ \E i \in 1..MaxInvocations : AEResume(i) /\ UNCHANGED <<varsSR, varsDH, varsAS, varsUE, varsCR, varsTO, varsMS, varsST, varsSE, varsAR, varsCC, varsWV, varsSL, varsLR>>
  \/ \E i \in 1..MaxInvocations : AEThen(i) /\ UNCHANGED <<varsSR, varsDH, varsAS, varsUE, varsCR, varsTO, varsMS, varsST, varsSE, varsAR, varsCC, varsWV, varsSL, varsLR>>
  \/ AEUnmount /\ UNCHANGED <<varsSR, varsDH, varsAS, varsUE, varsCR, varsTO, varsMS, varsST, varsSE, varsAR, varsCC, varsWV, varsSL, varsLR>>

SpecAE == Init /\ [][NextAE]_vars

\* The host of useAsyncState.
NextAS ==
  \/ \E deps \in FetchDeps : ASCommit(deps) /\ UNCHANGED <<varsSR, varsDH, varsAE, varsUE, varsCR, varsTO, varsMS, varsST, varsSE, varsAR, varsCC, varsWV, varsSL, varsLR>>
  \/ \E i \in 1..MaxFetches, data \in FetchData :
        ASResolve(i, data) /\ UNCHANGED <<varsSR, varsDH, varsAE, varsUE, varsCR, varsTO, varsMS, varsST, varsSE, varsAR, varsCC, varsWV, varsSL, varsLR>>
  \/ \E i \in 1..MaxFetches, error \in FetchErrors :
        ASReject(i, error) /\ UNCHANGED <<varsSR, varsDH, varsAE, varsUE, varsCR, varsTO, varsMS, varsST, varsSE, varsAR, varsCC, varsWV, varsSL, varsLR>>
  \/ ASUnmount /\ UNCHANGED <<varsSR, varsDH, varsAE, varsUE, varsCR, varsTO, varsMS, varsST, varsSE, varsAR, varsCC, varsWV, varsSL, varsLR>>

SpecAS == Init /\ [][NextAS]_vars

\* The host of useUpdateEffect and useUpdateLayoutEffect.
NextUE ==
  \/ \E cfg \in UpdateConfigs, deps \in UpdateDeps \cup {NoList} :
        UEMount(cfg, deps) /\ UNCHANGED <<varsSR, varsDH, varsAE, varsAS, varsCR, varsTO, varsMS, varsST, varsSE, varsAR, varsCC, varsWV, varsSL, varsLR>>
  \/ \E deps \in UpdateDeps \cup {NoList} : UERender(deps) /\ UNCHANGED <<varsSR, varsDH, varsAE, varsAS, varsCR, varsTO, varsMS, varsST, varsSE, varsAR, varsCC, varsWV, varsSL, varsLR>>
  \/ UECommit /\ UNCHANGED <<varsSR, varsDH, varsAE, varsAS, varsCR, varsTO, varsMS, varsST, varsSE, varsAR, varsCC, varsWV, varsSL, varsLR>>
  \/ UEFlush /\ UNCHANGED <<varsSR, varsDH, varsAE, varsAS, varsCR, varsTO, varsMS, varsST, varsSE, varsAR, varsCC, varsWV, varsSL, varsLR>>
  \/ UEUnmount /\ UNCHANGED <<varsSR, varsDH, varsAE, varsAS, varsCR, varsTO, varsMS, varsST, varsSE, varsAR, varsCC, varsWV, varsSL, varsLR>>

SpecUE == Init /\ [][NextUE]_vars

\* The host of useComputedStatefulRef.
NextCR ==
  \/ \E form \in Overloads, init \in ComputedValues, recompute \in Recomputes,
        values \in ComputedDeps :
        CRMount(form, init, recompute, values) /\ UNCHANGED <<varsSR, varsDH, varsAE, varsAS, varsUE, varsTO, varsMS, varsST, varsSE, varsAR, varsCC, varsWV, varsSL, varsLR>>
  \/ \E recompute \in Recomputes, values \in ComputedDeps :
        CRRender(recompute, values) /\ UNCHANGED <<varsSR, varsDH, varsAE, varsAS, varsUE, varsTO, varsMS, varsST, varsSE, varsAR, varsCC, varsWV, varsSL, varsLR>>
  \/ CRCommit /\ UNCHANGED <<varsSR, varsDH, varsAE, varsAS, varsUE, varsTO, varsMS, varsST, varsSE, varsAR, varsCC, varsWV, varsSL, varsLR>>
  \/ \E v \in ComputedValues : CRSet(v) /\ UNCHANGED <<varsSR, varsDH, varsAE, varsAS, varsUE, varsTO, varsMS, varsST, varsSE, varsAR, varsCC, varsWV, varsSL, varsLR>>

SpecCR == Init /\ [][NextCR]_vars

\* The host of useTimeout.
NextTO ==
  \/ \E values \in TimeoutDeps : TOMount(values) /\ UNCHANGED <<varsSR, varsDH, varsAE, varsAS, varsUE, varsCR, varsMS, varsST, varsSE, varsAR, varsCC, varsWV, varsSL, varsLR>>
  \/ \E values \in TimeoutDeps : TORender(values) /\ UNCHANGED <<varsSR, varsDH, varsAE, varsAS, varsUE, varsCR, varsMS, varsST, varsSE, varsAR, varsCC, varsWV, varsSL, varsLR>>
  \/ TOCommit /\ UNCHANGED <<varsSR, varsDH, varsAE, varsAS, varsUE, varsCR, varsMS, varsST, varsSE, varsAR, varsCC, varsWV, varsSL, varsLR>>
  \/ TOFlush /\ UNCHANGED <<varsSR, varsDH, varsAE, varsAS, varsUE, varsCR, varsMS, varsST, varsSE, varsAR, varsCC, varsWV, varsSL, varsLR>>
  \/ \E i \in 1..MaxTORenders : TOFire(i) /\ UNCHANGED <<varsSR, varsDH, varsAE, varsAS, varsUE, varsCR, varsMS, varsST, varsSE, varsAR, varsCC, varsWV, varsSL, varsLR>>
  \/ TOUnmount /\ UNCHANGED <<varsSR, varsDH, varsAE, varsAS, varsUE, varsCR, varsMS, varsST, varsSE, varsAR, varsCC, varsWV, varsSL, varsLR>>

SpecTO == Init /\ [][NextTO]_vars

\* The host of useMeasurable.
NextMS ==
  \/ \E selector \in Selectors, hasElement \in BOOLEAN :
        MSCommit(selector, hasElement) /\ UNCHANGED <<varsSR, varsDH, varsAE, varsAS, varsUE, varsCR, varsTO, varsST, varsSE, varsAR, varsCC, varsWV, varsSL, varsLR>>
  \/ MSFlush /\ UNCHANGED <<varsSR, varsDH, varsAE, varsAS, varsUE, varsCR, varsTO, varsST, varsSE, varsAR, varsCC, varsWV, varsSL, varsLR>>
  \/ MSResize /\ UNCHANGED <<varsSR, varsDH, varsAE, varsAS, varsUE, varsCR, varsTO, varsST, varsSE, varsAR, varsCC, varsWV, varsSL, varsLR>>
  \/ MSManualMeasure /\ UNCHANGED <<varsSR, varsDH, varsAE, varsAS, varsUE, varsCR, varsTO, varsST, varsSE, varsAR, varsCC, varsWV, varsSL, varsLR>>
  \/ \E rect \in Rects : MSRectChange(rect) /\ UNCHANGED <<varsSR, varsDH, varsAE, varsAS, varsUE, varsCR, varsTO, varsST, varsSE, varsAR, varsCC, varsWV, varsSL, varsLR>>
  \/ MSUnmount /\ UNCHANGED <<varsSR, varsDH, varsAE, varsAS, varsUE, varsCR, varsTO, varsST, varsSE, varsAR, varsCC, varsWV, varsSL, varsLR>>

SpecMS == Init /\ [][NextMS]_vars

\* The Provider of a store and its consumers.
NextST ==
  \/ \E env \in Envs : STCreateStore(env) /\ UNCHANGED <<varsSR, varsDH, varsAE, varsAS, varsUE, varsCR, varsTO, varsMS, varsSE, varsAR, varsCC, varsWV, varsSL, varsLR>>
  \/ STMount /\ UNCHANGED <<varsSR, varsDH, varsAE, varsAS, varsUE, varsCR, varsTO, varsMS, varsSE, varsAR, varsCC, varsWV, varsSL, varsLR>>
  \/ \E fields \in StoreValues : STDispatchValue(fields) /\ UNCHANGED <<varsSR, varsDH, varsAE, varsAS, varsUE, varsCR, varsTO, varsMS, varsSE, varsAR, varsCC, varsWV, varsSL, varsLR>>
  \/ \E producer \in Producers : STDispatchProducer(producer) /\ UNCHANGED <<varsSR, varsDH, varsAE, varsAS, varsUE, varsCR, varsTO, varsMS, varsSE, varsAR, varsCC, varsWV, varsSL, varsLR>>
  \/ \E producer \in Producers \cup {""} : STDispatchOutside(producer) /\ UNCHANGED <<varsSR, varsDH, varsAE, varsAS, varsUE, varsCR, varsTO, varsMS, varsSE, varsAR, varsCC, varsWV, varsSL, varsLR>>
  \/ STUnmount /\ UNCHANGED <<varsSR, varsDH, varsAE, varsAS, varsUE, varsCR, varsTO, varsMS, varsSE, varsAR, varsCC, varsWV, varsSL, varsLR>>

SpecST == Init /\ [][NextST]_vars

\* Calls of shallowEquals and of its alias iss.
NextSE ==
  \/ \E objA, objB \in ShallowValues : SEShallowEquals(objA, objB) /\ UNCHANGED <<varsSR, varsDH, varsAE, varsAS, varsUE, varsCR, varsTO, varsMS, varsST, varsAR, varsCC, varsWV, varsSL, varsLR>>
  \/ SESwapped /\ UNCHANGED <<varsSR, varsDH, varsAE, varsAS, varsUE, varsCR, varsTO, varsMS, varsST, varsAR, varsCC, varsWV, varsSL, varsLR>>

SpecSE == Init /\ [][NextSE]_vars

\* One call of an array helper.
NextAR ==
  \/ ARTruthy /\ UNCHANGED <<varsSR, varsDH, varsAE, varsAS, varsUE, varsCR, varsTO, varsMS, varsST, varsSE, varsCC, varsWV, varsSL, varsLR>>
  \/ ARSplice /\ UNCHANGED <<varsSR, varsDH, varsAE, varsAS, varsUE, varsCR, varsTO, varsMS, varsST, varsSE, varsCC, varsWV, varsSL, varsLR>>

SpecAR == Init /\ [][NextAR]_vars

\* Calls of the string helpers.
NextCC ==
  \/ \E str \in Strings : CCCapitalize(str) /\ UNCHANGED <<varsSR, varsDH, varsAE, varsAS, varsUE, varsCR, varsTO, varsMS, varsST, varsSE, varsAR, varsWV, varsSL, varsLR>>
  \/ \E str \in Strings : CCKebabCaseToCamelCase(str) /\ UNCHANGED <<varsSR, varsDH, varsAE, varsAS, varsUE, varsCR, varsTO, varsMS, varsST, varsSE, varsAR, varsWV, varsSL, varsLR>>

SpecCC == Init /\ [][NextCC]_vars

\* Render invocations and commits of a component that calls useWatchValues.
NextWV ==
  \/ \E values \in WatchLists, includeOnMount \in BOOLEAN :
       WVMount(values, includeOnMount) /\ UNCHANGED <<varsSR, varsDH, varsAE, varsAS, varsUE, varsCR, varsTO, varsMS, varsST, varsSE, varsAR, varsCC, varsSL, varsLR>>
  \/ \E values \in WatchLists : WVRender(values) /\ UNCHANGED <<varsSR, varsDH, varsAE, varsAS, varsUE, varsCR, varsTO, varsMS, varsST, varsSE, varsAR, varsCC, varsSL, varsLR>>
  \/ WVCommit /\ UNCHANGED <<varsSR, varsDH, varsAE, varsAS, varsUE, varsCR, varsTO, varsMS, varsST, varsSE, varsAR, varsCC, varsSL, varsLR>>
  \/ WVUnmount /\ UNCHANGED <<varsSR, varsDH, varsAE, varsAS, varsUE, varsCR, varsTO, varsMS, varsST, varsSE, varsAR, varsCC, varsSL, varsLR>>

SpecWV == Init /\ [][NextWV]_vars

\* A component that calls useStoplightState.
NextSL ==
  \/ \E length \in 1..MaxStates, loop \in BOOLEAN :
       \E initialIdx \in 0..(length - 1) : SLMount(length, loop, initialIdx) /\ UNCHANGED <<varsSR, varsDH, varsAE, varsAS, varsUE, varsCR, varsTO, varsMS, varsST, varsSE, varsAR, varsCC, varsWV, varsLR>>
  \/ \E loop \in BOOLEAN : SLRender(loop) /\ UNCHANGED <<varsSR, varsDH, varsAE, varsAS, varsUE, varsCR, varsTO, varsMS, varsST, varsSE, varsAR, varsCC, varsWV, varsLR>>
  \/ SLNext /\ UNCHANGED <<varsSR, varsDH, varsAE, varsAS, varsUE, varsCR, varsTO, varsMS, varsST, varsSE, varsAR, varsCC, varsWV, varsLR>>
  \/ SLPrev /\ UNCHANGED <<varsSR, varsDH, varsAE, varsAS, varsUE, varsCR, varsTO, varsMS, varsST, varsSE, varsAR, varsCC, varsWV, varsLR>>

SpecSL == Init /\ [][NextSL]_vars

\* A component that calls useLazyRef.
NextLR ==
  \/ \E isFn \in BOOLEAN : LRMount(isFn) /\ UNCHANGED <<varsSR, varsDH, varsAE, varsAS, varsUE, varsCR, varsTO, varsMS, varsST, varsSE, varsAR, varsCC, varsWV, varsSL>>
  \/ LRCommit /\ UNCHANGED <<varsSR, varsDH, varsAE, varsAS, varsUE, varsCR, varsTO, varsMS, varsST, varsSE, varsAR, varsCC, varsWV, varsSL>>
  \/ LRRender /\ UNCHANGED <<varsSR, varsDH, varsAE, varsAS, varsUE, varsCR, varsTO, varsMS, varsST, varsSE, varsAR, varsCC, varsWV, varsSL>>
  \/ \E v \in Assigned : LRAssign(v) /\ UNCHANGED <<varsSR, varsDH, varsAE, varsAS, varsUE, varsCR, varsTO, varsMS, varsST, varsSE, varsAR, varsCC, varsWV, varsSL>>

SpecLR == Init /\ [][NextLR]_vars

\* ------------------------------------------------------------------------
\* useStatefulRef: claims
\* ------------------------------------------------------------------------

\* The step is a call of the setter.
SRIsSetStep == srOp'.kind = "set" /\ srOp' # srOp

\* The step is a render invocation of the mounted component.
SRIsRenderStep == srOp'.kind = "render" /\ srRenders' = srRenders + 1

\* The next value the setter call of this step computes from the cell.
SRCallValue == NextState(srOp'.isFn, srOp'.arg, srCell)

\* C1: a setter call whose next value differs (Object.is) from the cell's
\* current value writes the cell at once and calls setRef exactly once with
\* an object holding that value; the second of two successive calls with two
\* distinct values brings the number of scheduled re-renders to two more than
\* before the first, when the first changed the cell too.
C1_ChangingSetWritesCellAndSchedulesOnce ==
  [][ /\ (SRIsSetStep /\ ~ObjectIs(srCell, SRCallValue))
         => /\ srCell' = SRCallValue
            /\ srScheduled' = srScheduled + 1
            /\ Len(srQueue') = Len(srQueue) + 1
            /\ srQueue'[Len(srQueue')].value = SRCallValue
      /\ (/\ SRIsSetStep /\ srOp.kind = "set"
          /\ ~srOp.isFn /\ ~srOp'.isFn /\ srOp.arg # srOp'.arg
          /\ ~ObjectIs(srOp.before, srOp.arg))
         => srScheduled' = srOp.sched + 2
    ]_vars

\* Witness of C1: two successive setter calls have each changed the cell.
W_C1_TwoChangingSets ==
  /\ srOp.kind = "set"
  /\ ~ObjectIs(srOp.before, srCell)
  /\ srOp.sched = 1
  /\ srScheduled = 2
  /\ Len(srQueue) = 2

\* C2: a setter call whose next value is identical (Object.is) to the cell's
\* current value changes neither the cell nor the render state and calls
\* setRef zero times; two setter calls in a row with the same value call
\* setRef at most once in total.
C2_SameValueSetIsNoOp ==
  [][ /\ (SRIsSetStep /\ ObjectIs(srCell, SRCallValue))
         => UNCHANGED <<srCell, srBase, srQueue, srWip, srLastRef, srNextId,
                        srScheduled>>
      /\ (/\ SRIsSetStep /\ srOp.kind = "set"
          /\ ~srOp.isFn /\ ~srOp'.isFn /\ srOp.arg = srOp'.arg)
         => srScheduled' <= srOp.sched + 1
    ]_vars

\* Witness of C2: the setter was called with NaN while the cell held NaN,
\* right after a call that set NaN.
W_C2_SameValueTwice ==
  /\ srOp.kind = "set"
  /\ ~srOp.isFn
  /\ srOp.arg = "NaN"
  /\ srOp.before = "NaN"
  /\ srCell = "NaN"
  /\ srScheduled = srOp.sched
  /\ srScheduled >= 1

\* C3: when setter calls changed the cell since the last render (and
\* `current` was not assigned directly after the last of them), the next
\* render invocation finds the cell and the rendered state object both
\* holding the value of the last changing call.
C3_LastChangingValueSurvives ==
  [][ (SRIsRenderStep /\ srPending # Undef /\ ~srDirty)
      => /\ srCell' = srPending
         /\ srWip'.ref.value = srPending
    ]_vars

\* Witness of C3: a render invocation that followed two changing setter
\* calls and kept the value of the second.
W_C3_RenderAfterTwoSets ==
  /\ srOp.kind = "render"
  /\ srWip.live
  /\ srWip.n = 2
  /\ srQueue[1].value # srQueue[2].value
  /\ srWip.ref.value = srQueue[2].value
  /\ srCell = srQueue[2].value

\* ------------------------------------------------------------------------
\* useWatchValues, useImmediateEffect, useTrueMemo: claims
\* ------------------------------------------------------------------------

\* The step is a render invocation of H.
DHIsRenderStep == dhRenders' = dhRenders + 1

\* The calls of the effect and of its cleanups made by the last operation.
IECalls == SelectSeq(dhCalls, LAMBDA c : c.f \in {"effect", "cleanup"})

\* The last operation called f with identity id.
DHCalled(f, id) == \E i \in 1..Len(dhCalls) : dhCalls[i] = [f |-> f, id |-> id]

\* C4: a render of the mounted component reports unchanged exactly when its
\* list equals, in length and position by position, the list of the last
\* committed render that reported changed (or the mount list).
C4_WatchValuesReportsChange ==
  dhOp = "render" => (dhRet.changed <=> dhWip.values # dhBaseline)

\* Witness of C4: a render after mount reports unchanged for the list [NaN].
W_C4_UnchangedNaN ==
  /\ dhOp = "render"
  /\ ~dhRet.changed
  /\ dhWip.values = <<"NaN">>

\* C5: a re-render with unchanged deps calls neither the effect nor a
\* cleanup; a re-render with changed deps calls the cleanup returned by the
\* last committed execution (when it returned one) and then the effect,
\* inside the render invocation.
C5_ImmediateEffectCleanupThenEffect ==
  dhOp = "render" =>
    IF dhWip.values = dhCommitted.values
    THEN IECalls = <<>>
    ELSE IECalls =
           (IF dhCommitted.cleanup # Noop
            THEN <<[f |-> "cleanup", id |-> dhCommitted.cleanup]>> ELSE <<>>)
           \o <<[f |-> "effect", id |-> ieEffects]>>

\* Witness of C5: a re-render with changed deps has called a cleanup and
\* then the effect.
W_C5_CleanupBeforeEffect ==
  /\ dhOp = "render"
  /\ Len(IECalls) = 2
  /\ IECalls[1].f = "cleanup"
  /\ IECalls[2].f = "effect"

\* C6 (as claimed): when the component unmounts, the cleanup returned by the
\* most recent committed effect execution is invoked.
C6_UnmountInvokesCleanup ==
  (dhOp = "unmount" /\ dhCommitted.cleanup # Noop)
    => DHCalled("cleanup", dhCommitted.cleanup)

\* C7: the first render and every render whose deps differ from the last
\* committed deps execute the effect once inside the render invocation; a
\* commit executes no effect.
C7_ImmediateEffectRunsInRender ==
  [][ /\ (DHIsRenderStep /\ (dhOp' = "mount" \/ dhWip'.values # dhCommitted.values))
         => /\ ieEffects' = ieEffects + 1
            /\ \E i \in 1..Len(dhCalls') :
                  dhCalls'[i] = [f |-> "effect", id |-> ieEffects']
      /\ (dhOp' = "commit" /\ dhWip.live)
         => /\ ieEffects' = ieEffects
            /\ ~\E i \in 1..Len(dhCalls') : dhCalls'[i].f = "effect"
    ]_vars

\* Witness of C7: a re-render with deps that differ from the committed ones
\* has executed the effect.
W_C7_EffectInRerender ==
  /\ dhOp = "render"
  /\ dhWip.values # dhCommitted.values
  /\ DHCalled("effect", ieEffects)
  /\ ieEffects >= 2

\* C8: every render that observes deps different from the last committed
\* deps (and the first render) calls init inside the render invocation and
\* returns the value of that call, not the cached one.
C8_TrueMemoRecomputesInRender ==
  [][ (DHIsRenderStep /\ (dhOp' = "mount" \/ dhWip'.values # dhCommitted.values))
      => /\ tmInits' = tmInits + 1
         /\ \E i \in 1..Len(dhCalls') :
               dhCalls'[i] = [f |-> "init", id |-> tmInits']
         /\ dhRet'.memo = InitResult(dhRet'.initFn, tmInits')
         /\ dhRet'.initFn = "fresh" => dhRet'.memo # tmValue
    ]_vars

\* Witness of C8: a re-render returned the object of the init call it made
\* while the cache still held the object of an earlier call.
W_C8_FreshValueReturned ==
  /\ dhOp = "render"
  /\ tmInits >= 2
  /\ dhRet.memo = MemoObj(tmInits)
  /\ tmValue.k = "obj"
  /\ tmValue # dhRet.memo

\* C9: a committed render whose deps equal those of the previous committed
\* render returned the value that render returned and did not call init.
C9_TrueMemoStableOnEqualDeps ==
  [][ (dhOp' = "commit" /\ dhWip.live /\ ~dhWip.mount
       /\ dhWip.values = dhCommitted.values)
      => /\ dhRet.memo = dhCommitted.memo
         /\ ~\E i \in 1..Len(dhCalls) : dhCalls[i].f = "init"
    ]_vars

\* Witness of C9: two re-renders with the deps of the mount were rendered
\* and the last one committed, with init called once in all.
W_C9_TwoStableRenders ==
  /\ dhOp = "commit"
  /\ dhRenders = 3
  /\ tmInits = 1
  /\ dhCommitted.memo = MemoObj(1)

\* ------------------------------------------------------------------------
\* useAsyncEffect: claims
\* ------------------------------------------------------------------------

\* The step runs the cleanup of the running invocation: the deps changed (or
\* there are none) or the component unmounted.
AEIsCleanupStep ==
  /\ aeOp' # aeOp
  /\ aeOp'.kind \in {"rerun", "unmount"}
  /\ aeOp'.inv # 0
  /\ aeOp'.inv = aeCur

\* C10 (as claimed): the cleanup of the running invocation sets its
\* signal.aborted to true and, when the invocation's promise had already
\* resolved with a cleanup callback, calls that callback.
C10_CleanupAbortsAndCallsResolvedCallback ==
  [][ AEIsCleanupStep
      => /\ aeInv'[aeCur].aborted
         /\ (aeInv[aeCur].stage # "awaiting" /\ aeInv[aeCur].cb # 0)
            => aeInv'[aeCur].runs = aeInv[aeCur].runs + 1
    ]_vars

\* C11: every invocation but the newest has signal.aborted = true (the
\* cleanup of an invocation has run when the next one starts), so at most one
\* invocation is not aborted; after unmount all are aborted.
C11_AtMostOneLiveInvocation ==
  /\ \A i \in 1..Len(aeInv) : i < Len(aeInv) => aeInv[i].aborted
  /\ Cardinality({i \in 1..Len(aeInv) : ~aeInv[i].aborted}) <= 1
  /\ aeDead => \A i \in 1..Len(aeInv) : aeInv[i].aborted

\* Witness of C11: a second invocation runs while the first, aborted, is
\* still awaiting its value.
W_C11_SupersededInFlight ==
  /\ Len(aeInv) = 2
  /\ aeInv[1].aborted
  /\ aeInv[1].stage = "awaiting"
  /\ ~aeInv[2].aborted

\* Every invocation started so far runs a callback that checks
\* signal.aborted after its await.
AEAllCheck == \A i \in 1..Len(aeInv) : aeInv[i].checks

\* C12: a callback that checks signal.aborted after its await records its
\* result only when its invocation is not aborted at that moment; once all
\* promises have settled in a mounted component, the last recorded result is
\* that of the newest invocation.
C12_OnlyLiveInvocationsRecord ==
  [][ /\ \A i \in 1..Len(aeInv) :
           (aeInv[i].checks /\ aeOp'.kind = "resume" /\ aeOp'.inv = i
            /\ aeValues' # aeValues)
           => ~aeInv[i].aborted
      /\ (/\ AEAllCheck' /\ aeMounted' /\ aeCur' # 0
          /\ \A i \in 1..Len(aeInv') : aeInv'[i].stage # "awaiting")
         => /\ aeValues' # <<>>
            /\ aeValues'[Len(aeValues')] = aeCur'
    ]_vars

\* Witness of C12: the first invocation was superseded before its value
\* arrived and recorded nothing; only the second recorded its result.
W_C12_StaleResultSkipped ==
  /\ Len(aeInv) = 2
  /\ AEAllCheck
  /\ aeMounted
  /\ \A i \in 1..2 : aeInv[i].stage # "awaiting"
  /\ aeValues = <<2>>

\* ------------------------------------------------------------------------
\* useAsyncState: claims
\* ------------------------------------------------------------------------

\* The step starts, resolves or rejects a fetch (kind start, resolve, reject).
ASIsStep(kind) == asOp'.kind = kind /\ asInv' # asInv

\* The step completes the fetch of the current getData and arguments.
ASCompletesCurrent == asOp'.inv = asCur /\ asCur # 0

\* C13: when the effect starts a fetch the state has loading = true; when
\* the current fetch resolves with d the state becomes {data: d, loading:
\* false} without error; when it rejects with e the state becomes {data: the
\* data before the rejection, error: e, loading: false} and the promise of
\* the async callback is fulfilled, not rejected.
C13_LoadingThenDataOrError ==
  [][ /\ ASIsStep("start") => asState'.loading
      /\ (ASIsStep("resolve") /\ ASCompletesCurrent)
         => /\ asState'.data = asOp'.arg
            /\ asState'.error = Undef
            /\ ~asState'.loading
      /\ (ASIsStep("reject") /\ ASCompletesCurrent)
         => /\ asState'.data = asState.data
            /\ asState'.error = asOp'.arg
            /\ ~asState'.loading
            /\ asPromise'[asOp'.inv] = "fulfilled"
    ]_vars

\* Witness of C13: the current fetch rejected after an earlier one resolved;
\* the state holds the earlier data together with the error.
W_C13_RejectKeepsData ==
  /\ asOp.kind = "reject"
  /\ asOp.inv = asCur
  /\ asOp.before.loading
  /\ asState.data \in FetchData
  /\ asState.error \in FetchErrors
  /\ ~asState.loading

\* C14: a fetch started by a change of getData or of an argument keeps data
\* and lastLoaded, sets loading = true and leaves error undefined.
C14_NewFetchKeepsDataClearsError ==
  [][ (ASIsStep("start") /\ asMounted)
      => /\ asState'.data = asState.data
         /\ asState'.lastLoaded = asState.lastLoaded
         /\ asState'.loading
         /\ asState'.error = Undef
    ]_vars

\* Witness of C14: a fetch started on a state holding data, a date and the
\* error of the previous fetch.
W_C14_StartAfterError ==
  /\ asOp.kind = "start"
  /\ asOp.before.data \in FetchData
  /\ asOp.before.error \in FetchErrors
  /\ asOp.before.lastLoaded # NoDate
  /\ asState.data = asOp.before.data
  /\ asState.loading

\* ------------------------------------------------------------------------
\* useUpdateEffect, useUpdateLayoutEffect: claims
\* ------------------------------------------------------------------------

\* The wrapper effect of a committed update waits to be flushed.
UEUpdateEffectWaits == uePending.wrapper /\ ueUpdates > 0

\* C17: the effect is not invoked by the commit of the mount; without a deps
\* list it is invoked exactly once per committed update, so k updates whose
\* effects have run give k invocations.
C17_NoEffectOnMountOncePerUpdate ==
  /\ ueUpdates = 0 => ueEffects = 0
  /\ ~ueCfg.hasDeps
     => ueEffects = IF UEUpdateEffectWaits THEN ueUpdates - 1 ELSE ueUpdates

\* Witness of C17: two updates without deps list, two invocations.
W_C17_TwoUpdatesTwoEffects ==
  /\ ~ueCfg.hasDeps
  /\ ueUpdates = 2
  /\ ueEffects = 2
  /\ uePending = NoPending

\* C18: with a deps list that is the same in every render, the effect is
\* never invoked without includeFirstUpdate; with includeFirstUpdate it is
\* invoked once, by the first update, and by no later update.
C18_UnchangedDepsFirstUpdateOnly ==
  (ueCfg.hasDeps /\ ~ueChanged)
  => IF ueCfg.includeFirstUpdate
     THEN ueEffects = IF ueUpdates = 0 \/ (ueUpdates = 1 /\ uePending.wrapper)
                      THEN 0 ELSE 1
     ELSE ueEffects = 0

\* Witness of C18: includeFirstUpdate, two updates with the deps of the
\* mount, one invocation.
W_C18_SecondUpdateSkipped ==
  /\ ueCfg.hasDeps
  /\ ueCfg.includeFirstUpdate
  /\ ~ueChanged
  /\ ueUserDeps = SomeList(<<"pz">>)
  /\ ueUpdates = 2
  /\ ueEffects = 1

\* ------------------------------------------------------------------------
\* useComputedStatefulRef: claims
\* ------------------------------------------------------------------------

\* The step is a render invocation of the component being mounted.
CRIsMountStep == crOp'.kind = "mount" /\ crRenders' = crRenders + 1

\* The step is a render invocation of the mounted component.
CRIsRenderStep == crOp'.kind = "render" /\ crRenders' = crRenders + 1

\* The deps of the render invocation differ from the last committed deps in
\* length or at some position.
CRDepsDiffer == crOp'.values # crCommitted

\* What useStatefulRef alone leaves in the cell after a render invocation:
\* the committed value when no update is pending, else the cell as set.
CRStatefulRefCell == IF crQueue = <<>> THEN crBase.value ELSE crCell

\* Later renders: with differing deps the recompute function is called and
\* the cell holds its result when the render invocation ends; with the
\* committed deps it is not called and the cell is what useStatefulRef
\* leaves.
CRLaterRenders ==
  /\ (CRIsRenderStep /\ CRDepsDiffer)
     => /\ crOp'.calls >= 1
        /\ crCell' = crOp'.result
  /\ (CRIsRenderStep /\ ~CRDepsDiffer)
     => /\ crOp'.calls = 0
        /\ crCell' = CRStatefulRefCell

\* C19 as claimed: the recompute function is not called in the first render,
\* after which the cell holds the initial value; later renders recompute
\* exactly when the deps differ from the last committed deps.
C19_RecomputeNotCalledOnFirstRender ==
  [][ /\ CRIsMountStep => crOp'.calls = 0 /\ crCell' = crOp'.result
      /\ CRLaterRenders
    ]_vars

\* C19, amended: in the first render the function is not called in the
\* three-argument form and called once, as the initializer of the cell, in
\* the two-argument form; no recomputation follows the initialization;
\* later renders recompute exactly when the deps differ from the last
\* committed deps.
C19_RecomputeOnChangedDepsOnly ==
  [][ /\ CRIsMountStep
         => /\ crOp'.calls = IF crOp'.form = "two" THEN 1 ELSE 0
            /\ crOp'.passes = 1
            /\ crCell' = crOp'.result
      /\ CRLaterRenders
    ]_vars

\* Witness of C19: the two-argument form, mounted with the value of its
\* compute function, recomputed in a render with changed deps: the function
\* ran in both passes of it and the cell changed to its result.
W_C19_RecomputedInRender ==
  /\ crOp.kind = "render"
  /\ crOp.form = "two"
  /\ crOp.values # crCommitted
  /\ crOp.calls = 2
  /\ ~crOp.threw
  /\ crOp.before = "NaN"
  /\ crCell = "a"

\* ------------------------------------------------------------------------
\* useTimeout: claims
\* ------------------------------------------------------------------------

\* The step is a render invocation of the mounted component.
TOIsRenderStep == toOp'.kind = "render" /\ toRenders' = toRenders + 1

\* The timer of the current epoch, started by the effect of the committed
\* list, has fired when the render invocation ends.
TOCurrentTimerFired == toCur' # 0 /\ toTimers'[toCur'].state = "fired"

\* C15: a render that observes a changed list [timeoutMs, ...deps] returns
\* false; a render with the committed list returns true when the timer of
\* the current epoch has fired and false before; the mount returns false.
C15_ExpiredFollowsCurrentTimer ==
  [][ /\ (toOp'.kind = "mount" /\ toRenders' = toRenders + 1)
         => toOp'.ret = "false"
      /\ (TOIsRenderStep /\ toOp'.values # toCommitted)
         => toOp'.ret = "false"
      /\ (TOIsRenderStep /\ toOp'.values = toCommitted)
         => toOp'.ret = IF TOCurrentTimerFired THEN "true" ELSE "false"
    ]_vars

\* The timers that may still fire.
TOPendingTimers == {i \in 1..Len(toTimers) : toTimers[i].state = "pending"}

\* C16: at most one timer is pending; every timer but the newest was cleared
\* or has fired before the newest was started; no timer fires twice; no
\* timer is pending after unmount.
C16_OnePendingTimer ==
  /\ Cardinality(TOPendingTimers) <= 1
  /\ \A i \in 1..Len(toTimers) :
        /\ toTimers[i].fired <= 1
        /\ i < Len(toTimers) => toTimers[i].state # "pending"
  /\ toDead => TOPendingTimers = {}

\* Witness of C16: a change of the list cleared the timer of the first
\* epoch and started the second.
W_C16_ClearedThenStarted ==
  /\ Len(toTimers) = 2
  /\ toTimers[1].state = "cleared"
  /\ toTimers[2].state = "pending"

\* ------------------------------------------------------------------------
\* useMeasurable: claims
\* ------------------------------------------------------------------------

\* The step is a resize event or a manual measure that read the rectangle
\* of the element while a snapshot was held.
MSIsMeasureStep ==
  /\ msOp'.kind \in {"resize", "manual"}
  /\ msMeasures' = msMeasures + 1
  /\ msOp'.measured
  /\ ~IsFalsy(msState)

\* The rectangle found equals, field by field, the one the snapshot was
\* taken from.
MSRectUnchanged == \A k \in RectKeys : msRect[k] = msSnapRect[k]

\* The state after the step is a value made by this measure, not the
\* previous state object.
MSStateReplaced ==
  /\ msState'.t = "obj" => msState'.id >= msNextId
  /\ msOp'.selector = "none"
     => /\ msState'.t = "obj"
        /\ \A k \in RectKeys : msState'.fields[k] = msRect[k]

\* C20 as claimed: a measure that finds the rectangle unchanged keeps the
\* state object; one that finds a changed field replaces the state by the
\* new normalized rectangle or the selector's projection of it.
C20_StateReplacedIffRectChanged ==
  [][ MSIsMeasureStep
      => IF MSRectUnchanged THEN msState' = msState ELSE MSStateReplaced
    ]_vars

\* C20, amended: the state object is kept exactly when the value computed
\* from the rectangle (the normalized rectangle, or the selector's
\* projection) is shallow-equal to the state, else that value replaces it;
\* without selector it is kept exactly when the six fields are unchanged.
C20_StateKeptIffShallowEqual ==
  [][ MSIsMeasureStep
      => /\ IF shallowEquals(msState, msOp'.computed)
            THEN msState' = msState
            ELSE msState' = msOp'.computed /\ MSStateReplaced
         /\ (msOp'.selector = "none" /\ msState.t = "obj"
             /\ DOMAIN msState.fields = RectKeys)
            => (msState' = msState
                <=> \A k \in RectKeys : msRect[k] = msState.fields[k])
    ]_vars

\* Witness of C20: with the selector of the width, a resize that found the
\* bottom of the rectangle changed kept the state object.
W_C20_ProjectionKeepsState ==
  /\ msOp.kind = "resize"
  /\ msOp.selector = "width"
  /\ msOp.measured
  /\ msOp.before = msState
  /\ msState.t = "obj"
  /\ msRect["bottom"] # msSnapRect["bottom"]
  /\ msRect["width"] = msSnapRect["width"]

C22_MountReachesFixedPoint ==
  msPlain
  => /\ (~msMounted /\ ~msDead) => msState = MNull
     /\ (msMounted \/ msDead)
        => /\ msUpdates = 1
           /\ msState.t = "obj"
           /\ \A k \in RectKeys : msState.fields[k] = BaseRect[k]
     /\ (msOp.kind = "commit" /\ ~IsFalsy(msOp.before)) => ~msScheduled

\* Witness of C22: the commit of the render that followed the measurement,
\* and one more, measured again and scheduled nothing.
W_C22_RemeasureSchedulesNothing ==
  /\ msPlain
  /\ msOp.kind = "commit"
  /\ msOp.measured
  /\ msOp.before = msState
  /\ msMeasures = 3
  /\ msUpdates = 1
  /\ ~msScheduled

\* ------------------------------------------------------------------------
\* createStore: claims
\* ------------------------------------------------------------------------

\* C23: a dispatch in the Provider with a function as action makes the next
\* state the result of applying the function to a draft of the state: the
\* state object and every object allocated before keep their fields, and
\* the next state holds the fields the function's statements produce (or is
\* the object the function returned); with any other action the next state
\* is the action itself.
C23_ReducerCopyOnWrite ==
  [][(stOp'.kind = "dispatch" /\ stOp' # stOp) =>
       /\ \A i \in 1..Len(stHeap) : stHeap'[i] = stHeap[i]
       /\ IF stOp'.producer # ""
          THEN /\ stOp'.producer = "returnNew" =>
                    /\ stState' > Len(stHeap)
                    /\ stHeap'[stState'] = StoreFields("2", "2")
               /\ stOp'.producer # "returnNew" =>
                    stHeap'[stState'] = ApplyProducer(stOp'.producer, stHeap[stState])
          ELSE stState' = stOp'.value]_vars

\* C23 witness: the producer that advances b was dispatched on a state that
\* is not initialState; the state before keeps b and the next state is
\* another object holding the advanced b.
W_C23_ProducerCopied ==
  /\ stOp.kind = "dispatch" /\ stOp.producer = "nextB"
  /\ stOp.before > 1 /\ stState # stOp.before
  /\ stHeap[stOp.before]["b"] = "2" /\ stHeap[stState]["b"] = "0"
  /\ stHeap[stState]["a"] = stHeap[stOp.before]["a"]

\* C24: the dispatch of a consumer with no enclosing Provider throws in a
\* development build, and in a production build returns without throwing;
\* in every build the call leaves the store state and every state object
\* as they were.
C24_DispatchWithoutProvider ==
  [][(stOp'.kind = "outside" /\ stOp' # stOp) =>
       /\ stEnv = "development" => stOp'.threw
       /\ stEnv = "production" => ~stOp'.threw
       /\ stState' = stState
       /\ stHeap' = stHeap
       /\ stMounted' = stMounted]_vars

\* C24 witness: in a production build, while a Provider holds a state other
\* than initialState, a consumer outside it dispatched a producer and the
\* call returned.
W_C24_SilentInProduction ==
  /\ stOp.kind = "outside" /\ stOp.producer = "nextB" /\ ~stOp.threw
  /\ stEnv = "production"
  /\ stMounted /\ stState # 1 /\ stOp.before = stState

\* ------------------------------------------------------------------------
\* shallowEquals: claims
\* ------------------------------------------------------------------------

\* The two arguments are both non-null objects with the same set of own
\* enumerable keys and Object.is-equal values under every key.
C25_SameEnumerable(a, b) ==
  /\ a.t = "obj" /\ b.t = "obj"
  /\ DOMAIN a.fields = DOMAIN b.fields
  /\ \A k \in DOMAIN a.fields : ObjectIs(a.fields[k], b.fields[k])

\* C25: shallowEquals(a, b) is true exactly when a and b are identical by
\* Object.is, or both are non-null objects with the same set of own
\* enumerable keys and Object.is-equal values under every key; it is
\* reflexive, and symmetric: the call with the arguments swapped gives the
\* same result.
C25_ShallowEqualsExact ==
  /\ seOp # "none" =>
       /\ seResult <=> (ValueIs(seA, seB) \/ C25_SameEnumerable(seA, seB))
       /\ ValueIs(seA, seB) => seResult
  /\ seOp = "swap" => seSwapped = seResult

\* ------------------------------------------------------------------------
\* Array helpers: claims
\* ------------------------------------------------------------------------

\* The positions of the input array whose element is not in the given set.
C26_Kept(dropped) == {i \in 1..Len(arIn) : arIn[i] \notin dropped}

\* The array returned holds, in the order of the input, the elements not in
\* the given set, or with a map function the map's result for each of them
\* and its position (counted from 0) in the input.
C26_ResultKeeps(dropped) ==
  /\ Len(arResult) = Cardinality(C26_Kept(dropped))
  /\ \A i \in C26_Kept(dropped) :
       LET j == Cardinality({k \in C26_Kept(dropped) : k <= i}) IN
       arResult[j] = IF arOp.map = "none" THEN arIn[i]
                     ELSE arIn[i] \o "@" \o ToString(i - 1)

\* C26 as stated: truthy returns, in their original order, exactly the
\* elements that are not null, undefined or false (with a map function, the
\* map applied to exactly those elements and their original index), and
\* the input array is not modified.
C26_TruthyDropsNullish ==
  arOp.kind = "truthy" =>
    /\ C26_ResultKeeps({"null", Undef, "false"})
    /\ arArray = arIn

\* C26 amended: truthy returns, in their original order, exactly the
\* elements that convert to true, dropping 0, '' and NaN as well as null,
\* undefined and false (with a map function, the map applied to exactly
\* those elements and their original index); the input array is not
\* modified.
C26_TruthyDropsFalsy ==
  arOp.kind = "truthy" =>
    /\ C26_ResultKeeps({"null", Undef, "false", "0", "", "NaN", "pz", "nz"})
    /\ arArray = arIn

\* C26 witness: truthy with a map function on [0, 'a', null] returned the
\* map's result for 'a' at index 1 only.
W_C26_MappedWithOriginalIndex ==
  /\ arOp.kind = "truthy" /\ arOp.map = "tag"
  /\ arIn = <<"0", "a", "null">>
  /\ arResult = <<"a@1">>
  /\ arArray = arIn

\* C27: splice discards the copy it computes: for every start, deleteCount
\* and newElements the array returned is empty, which differs from the
\* computed copy whenever that copy has an element, and the elements of the
\* input array are unchanged.
C27_SpliceDiscardsCopy ==
  arOp.kind = "splice" =>
    /\ arResult = <<>>
    /\ arNewArray # <<>> => arResult # arNewArray
    /\ arArray = arIn

\* C27 witness: splice(['a', 0, null], 1, 1, 'a') computed ['a', 'a', null]
\* and returned an empty array, the input still ['a', 0, null].
W_C27_ComputedCopyDiscarded ==
  /\ arOp.kind = "splice" /\ arOp.start = 1 /\ arOp.hasDeleteCount
  /\ arOp.deleteCount = 1 /\ arOp.newElements = <<"a">>
  /\ arIn = <<"a", "0", "null">>
  /\ arNewArray = <<"a", "a", "null">>
  /\ arResult = <<>>
  /\ arArray = arIn

\* ------------------------------------------------------------------------
\* String helpers: claims
\* ------------------------------------------------------------------------

\* C28: capitalize and kebabCaseToCamelCase are total: for every input
\* string, the empty string and strings with empty segments between, before
\* or after hyphens included, the call returns a string and does not throw.
C28_CaseHelpersTotal ==
  ccOp \in {"capitalize", "kebabCaseToCamelCase"} => ~ccResult.threw

\* ------------------------------------------------------------------------
\* useWatchValues under repeated render invocations: claims
\* ------------------------------------------------------------------------

\* C29: a render invocation of useWatchValues before the first commit
\* returns true when includeOnMount is truthy and false otherwise, whatever
\* the list is.
C29_FirstRenderReturnsIncludeOnMount ==
  wvOp = "mount" => (wvWip.changed <=> wvInclude)

\* C29 witness: the first render with includeOnMount and the empty list
\* returned true.
W_C29_EmptyListOnMount ==
  /\ wvOp = "mount" /\ wvInclude /\ wvRenders = 1
  /\ wvWip.values = <<>> /\ wvWip.changed

\* C30: all render invocations made with the same list between two commits
\* return the same result; the ref holds the list of the last committed
\* invocation that reported changed (or of the committed mount): it is
\* replaced by the effect of a commit only.
C30_RepeatedRendersAgree ==
  /\ \A i, j \in 1..Len(wvSince) :
       wvSince[i].values = wvSince[j].values
         => wvSince[i].changed = wvSince[j].changed
  /\ wvMounted => wvRef = SomeList(wvBaseline)

\* C30 witness: after a commit, two render invocations with the same new
\* list, a discarded one with another list between them, both returned
\* true, with the ref still holding the committed list.
W_C30_DoubleRenderBothChanged ==
  /\ wvMounted /\ wvOp = "render" /\ Len(wvSince) = 3
  /\ wvSince[1].values = <<"pz">> /\ wvSince[1].changed
  /\ wvSince[2].values = <<"NaN">> /\ ~wvSince[2].changed
  /\ wvSince[3] = wvSince[1]
  /\ wvRef = SomeList(<<"NaN">>)

\* ------------------------------------------------------------------------
\* useStatefulRef: direct assignment of the cell
\* ------------------------------------------------------------------------

\* The last value given to setRef, or the initial value when the setter
\* never changed the cell.
C31_LastSetValue ==
  IF Len(srQueue) = 0 THEN srBase.value ELSE srQueue[Len(srQueue)].value

\* C31: a direct assignment of `current` schedules no re-render, and the
\* next render of the component, with no changing setter call between the
\* assignment and that render, resets the cell to the last value set
\* through the setter (or to the initial value).
C31_AssignmentLostAtNextRender ==
  [][/\ (srOp'.kind = "assign" /\ srOp' # srOp) =>
          /\ srScheduled' = srScheduled
          /\ srQueue' = srQueue
     /\ (SRIsRenderStep /\ srDirty) => srCell' = C31_LastSetValue]_vars

\* ------------------------------------------------------------------------
\* useStoplightState: claims
\* ------------------------------------------------------------------------

\* C32: with a non-empty list and an initial index within range, next moves
\* the index up by one and prev down by one; at the last index next wraps
\* to 0 when loop is true and otherwise stays; at index 0 prev wraps to the
\* last index when loop is true and otherwise stays; after every call the
\* index is within 0..length-1.
C32_IndexStaysInRange ==
  [][/\ (slOp'.kind = "next" /\ slOp' # slOp) =>
          /\ slIdx < slLength - 1 => slIdx' = slIdx + 1
          /\ (slIdx = slLength - 1 /\ slLoop) => slIdx' = 0
          /\ (slIdx = slLength - 1 /\ ~slLoop) => slIdx' = slIdx
     /\ (slOp'.kind = "prev" /\ slOp' # slOp) =>
          /\ slIdx > 0 => slIdx' = slIdx - 1
          /\ (slIdx = 0 /\ slLoop) => slIdx' = slLength - 1
          /\ (slIdx = 0 /\ ~slLoop) => slIdx' = slIdx
     /\ slMounted' => slIdx' \in 0..(slLength' - 1)]_vars

\* C32 witness: with loop true and three states, prev at index 0 moved to
\* index 2.
W_C32_PrevWrapsToLast ==
  /\ slOp = [kind |-> "prev", before |-> 0]
  /\ slLoop /\ slLength = 3 /\ slIdx = 2

\* ------------------------------------------------------------------------
\* useLazyRef: claims
\* ------------------------------------------------------------------------

\* C33: an init function is invoked exactly once for the hook state of a
\* component instance, in its mount render, however many times the
\* component re-renders; every render returns the same ref, and its
\* `current` is the value of that one call as long as the caller does not
\* assign it.
C33_InitInvokedOnce ==
  /\ (lrIsFn /\ lrRenders > 0) => (lrCalls = 1 /\ lrFirst \in 1..lrInits)
  /\ lrOp \in {"mount", "render"} =>
       /\ lrRet.id = lrRefId
       /\ ~lrAssigned => lrRet.current = lrFirst

\* C33 witness: the second re-render of a mounted component, whose first
\* mount render was discarded, returned the value of the one call of init
\* made for the committed hook state.
W_C33_ReRendersKeepValue ==
  /\ lrOp = "render" /\ lrMounted /\ lrIsFn /\ ~lrAssigned
  /\ lrRenders = 4 /\ lrInits = 2 /\ lrCalls = 1
  /\ lrRet = [id |-> 2, current |-> 2]

\* ------------------------------------------------------------------------
\* useAsyncEffect: the cleanup callback
\* ------------------------------------------------------------------------

\* C34: the cleanup callback an invocation of the async effect returned is
\* invoked at most once, and only when the reaction to the resolved promise
\* had stored it before the invocation was aborted; once an invocation is
\* aborted no callback is stored for it and none of its callbacks is
\* invoked.
C34_CallbackAtMostOnce ==
  [][\A i \in 1..Len(aeInv') :
       /\ aeInv'[i].runs <= 1
       /\ i <= Len(aeInv) =>
            /\ aeInv'[i].runs > aeInv[i].runs =>
                 /\ aeInv[i].stage = "settled"
                 /\ aeInv[i].cleanup = i /\ aeInv[i].cb = i
                 /\ ~aeInv[i].aborted
            /\ aeInv[i].aborted =>
                 /\ aeInv'[i].cleanup = aeInv[i].cleanup
                 /\ aeInv'[i].runs = aeInv[i].runs]_vars

\* C34 witness: the first invocation's promise resolved with a callback
\* after the invocation was aborted: the callback was not stored and never
\* ran; the second invocation's callback was stored and ran once at unmount.
W_C34_LateCallbackDropped ==
  /\ aeDead /\ Len(aeInv) = 2
  /\ aeInv[1].aborted /\ aeInv[1].stage = "settled" /\ aeInv[1].cb = 1
  /\ aeInv[1].cleanup = 0 /\ aeInv[1].runs = 0
  /\ aeInv[2].cleanup = 2 /\ aeInv[2].runs = 1
  /\ aeValues = <<2, 1>>

\* ------------------------------------------------------------------------
\* useAsyncState: completion of a superseded fetch
\* ------------------------------------------------------------------------

\* C35: once a newer fetch has been started or the component has unmounted,
\* the completion of an older fetch, resolved or rejected, leaves the state
\* unchanged; while the latest fetch is pending the state has loading true
\* and no error.
C35_StaleCompletionIgnored ==
  [][/\ (asOp'.kind \in {"resolve", "reject"} /\ asOp' # asOp
           /\ asInv[asOp'.inv].aborted) => asState' = asState
     /\ (asCur' # 0 /\ asInv'[asCur'].stage = "awaiting") =>
          (asState'.loading /\ asState'.error = Undef)]_vars

\* ------------------------------------------------------------------------
\* useComputedStatefulRef: re-renders caused by the recomputation
\* ------------------------------------------------------------------------

\* C36: in a render that observes changed deps the setter call in the body
\* causes finitely many immediate re-renders: the pass that follows the
\* recomputation finds the cell identical to the result of recompute and
\* schedules nothing further, so the render ends after at most two passes
\* and does not throw, for every recompute function.
C36_RecomputeSettles ==
  (crOp.kind = "render" /\ crOp.changed) => (~crOp.threw /\ crOp.passes <= 2)

\* ------------------------------------------------------------------------
\* useTrueMemo and useImmediateEffect: render invocations never committed
\* ------------------------------------------------------------------------

\* C37: a render invocation of the mounted component leaves the cache as it
\* was, whatever deps it observes: the cache holds the value returned by the
\* last committed render.  A render invocation whose deps are those of the
\* last committed render returns that value and does not call init, also
\* after render invocations with other deps that were never committed.
C37_DiscardedRenderKeepsCache ==
  [][ (DHIsRenderStep /\ dhOp' = "render")
      => /\ tmValue' = tmValue
         /\ tmValue' = dhCommitted.memo
         /\ (dhWip'.values = dhCommitted.values)
            => /\ dhRet'.memo = dhCommitted.memo
               /\ ~\E i \in 1..Len(dhCalls') : dhCalls'[i].f = "init"
    ]_vars

\* Witness of C37: a render with the committed deps returned the object of
\* the committed render after a later init call, made by a render invocation
\* with other deps that was never committed.
W_C37_BackToCommittedDeps ==
  /\ dhOp = "render"
  /\ dhWip.values = dhCommitted.values
  /\ dhRet.memo = dhCommitted.memo
  /\ dhCalls = <<>>
  /\ \E k \in 1..MaxDHRenders : dhCommitted.memo = MemoObj(k) /\ tmInits > k

\* C38: a render invocation of the mounted component that observes deps
\* different from the committed ones executes the effect once and calls the
\* cleanup of the last committed execution once (when it returned one), and
\* leaves the stored cleanup as it was; no render invocation calls another
\* cleanup, so the cleanup returned by an execution in a render invocation
\* that was never committed is never called.
C38_OnlyCommittedCleanupRuns ==
  [][ (DHIsRenderStep /\ dhOp' = "render")
      => /\ ieCleanup' = ieCleanup
         /\ ieCleanup' = dhCommitted.cleanup
         /\ \A i \in 1..Len(dhCalls') :
               dhCalls'[i].f = "cleanup" => dhCalls'[i].id = dhCommitted.cleanup
         /\ (dhWip'.values # dhCommitted.values)
            => /\ Len(SelectSeq(dhCalls', LAMBDA c : c.f = "effect")) = 1
               /\ Len(SelectSeq(dhCalls', LAMBDA c : c.f = "cleanup"))
                    = IF dhCommitted.cleanup # Noop THEN 1 ELSE 0
    ]_vars

\* Witness of C38: a render invocation with changed deps called the cleanup
\* of the committed execution again: an effect execution lies between that
\* one and the execution of this render, in a render invocation that was
\* never committed, and this render returned a cleanup of its own.
W_C38_CommittedCleanupCalledAgain ==
  /\ dhOp = "render"
  /\ dhCommitted.cleanup # Noop
  /\ DHCalled("cleanup", dhCommitted.cleanup)
  /\ DHCalled("effect", ieEffects)
  /\ ieEffects >= dhCommitted.cleanup + 2
  /\ dhWip.ieCleanup = ieEffects
  /\ ieCleanup = dhCommitted.cleanup

====
